---- MODULE Spec2Model ----
(***************************************************************************)
(* Model of pkg/upgrade/control_plane.go: the rolling control-plane        *)
(* upgrader (ControlPlaneUpgrader.Upgrade and the steps it calls), the     *)
(* management-cluster object store and the target cluster it acts on, and  *)
(* the controllers of the environment that populate provider ids, nodes    *)
(* and pods.  Strings are sequences of one-character strings.              *)
(***************************************************************************)
EXTENDS Integers, Sequences, FiniteSets, TLC

\* ------------------------------------------------------------- characters

Digits == {"0", "1", "2", "3", "4", "5", "6", "7", "8", "9"}

Alphabet == <<".", "0", "1", "2", "3", "4", "5", "6", "7", "8", "9",
              "a", "c", "d", "e", "g", "p", "r", "u">>

CharRank(c) == CHOOSE k \in 1..Len(Alphabet) : Alphabet[k] = c

\* s < t in the byte order the object store lists keys in.
RECURSIVE StrLess(_, _)
StrLess(s, t) ==
    IF t = <<>> THEN FALSE
    ELSE IF s = <<>> THEN TRUE
    ELSE IF Head(s) = Head(t) THEN StrLess(Tail(s), Tail(t))
    ELSE CharRank(Head(s)) < CharRank(Head(t))

RECURSIVE SortNames(_)
SortNames(S) ==
    IF S = {} THEN <<>>
    ELSE LET m == CHOOSE x \in S : \A y \in S \ {x} : StrLess(x, y)
         IN  <<m>> \o SortNames(S \ {m})

HasSuffix(s, suffix) ==
    /\ Len(suffix) <= Len(s)
    /\ SubSeq(s, Len(s) - Len(suffix) + 1, Len(s)) = suffix

AllDigits(s) == \A k \in 1..Len(s) : s[k] \in Digits

\* ------------------------------------------------------------------ names

DNS1123SubdomainMaxLength == 253

UpgradeWord == <<"u", "p", "g", "r", "a", "d", "e">>

upgradeSuffix(upgradeID) == <<".">> \o UpgradeWord \o <<".">> \o upgradeID

\* upgradeIDNameSuffixRegex.FindStringIndex: the 1-based start of the leftmost
\* match of "upgrade." followed by one or more digits up to the end of the
\* name, or 0 when the name has no such tail.
upgradeIDNameSuffixRegex(name) ==
    LET starts == {p \in 1..Len(name) :
                     /\ p + Len(UpgradeWord) + 1 <= Len(name)
                     /\ SubSeq(name, p, p + Len(UpgradeWord) - 1) = UpgradeWord
                     /\ name[p + Len(UpgradeWord)] = "."
                     /\ AllDigits(SubSeq(name, p + Len(UpgradeWord) + 1, Len(name)))}
    IN  IF starts = {} THEN 0
        ELSE CHOOSE p \in starts : \A q \in starts : p <= q

\* A variant of generateReplacementMachineName below that keeps a previous
\* suffix and never truncates.
appendUpgradeSuffix(original, upgradeID) == original \o upgradeSuffix(upgradeID)

\* The value standing for a run-time panic (slice bounds out of range).
Panic == <<"panic">>

generateReplacementMachineName(original, upgradeID) ==
    LET match == upgradeIDNameSuffixRegex(original)
        machineSuffix == upgradeSuffix(upgradeID)
        \* Go: index := match[0] - 1 on 0-based offsets; match[0] = match - 1.
        index == match - 2
        stripped == IF match # 0 THEN SubSeq(original, 1, index) ELSE original
        excess == Len(stripped) + Len(machineSuffix) - DNS1123SubdomainMaxLength
        max == Len(stripped) - excess
    IN  IF match # 0 /\ index < 0 THEN Panic
        ELSE IF excess > 0 /\ max < 0 THEN Panic
        ELSE IF excess > 0 THEN SubSeq(stripped, 1, max) \o machineSuffix
        ELSE stripped \o machineSuffix

\* --------------------------------------------------------------- versions

Version(major, minor, patch) == [major |-> major, minor |-> minor, patch |-> patch]

unsetVersion == Version(0, 0, 0)

VersionLT(a, b) ==
    \/ a.major < b.major
    \/ a.major = b.major /\ a.minor < b.minor
    \/ a.major = b.major /\ a.minor = b.minor /\ a.patch < b.patch

\* Machine.Spec.Version, a *string: nil, "" or a parsable version.
NilSpecVersion == [nil |-> TRUE, empty |-> FALSE, semver |-> unsetVersion]
EmptySpecVersion == [nil |-> FALSE, empty |-> TRUE, semver |-> unsetVersion]
SpecVersion(v) == [nil |-> FALSE, empty |-> FALSE, semver |-> v]

\* A variant of isMinorVersionUpgrade below that holds of every upgrade.
isVersionUpgrade(base, update) == VersionLT(base, update)

isMinorVersionUpgrade(base, update) ==
    base.major = update.major /\ base.minor < update.minor

\* minMaxControlPlaneVersions over the listed machines, in list order.
\* A nil spec.version is an error; an empty one is skipped.
RECURSIVE minMaxFrom(_, _, _, _)
minMaxFrom(list, k, min, max) ==
    IF k > Len(list) THEN [err |-> FALSE, min |-> min, max |-> max]
    ELSE LET v == list[k].version
             mv == v.semver
         IN  IF v.nil THEN [err |-> TRUE, min |-> unsetVersion, max |-> unsetVersion]
             ELSE IF v.empty THEN minMaxFrom(list, k + 1, min, max)
             ELSE minMaxFrom(list, k + 1,
                     IF min = unsetVersion \/ VersionLT(mv, min) THEN mv ELSE min,
                     IF max = unsetVersion \/ VersionLT(max, mv) THEN mv ELSE max)

minMaxControlPlaneVersions(list) == minMaxFrom(list, 1, unsetVersion, unsetVersion)

\* ------------------------------------------------------------ the cluster

c0 == <<"c", "0">>
c1 == <<"c", "1">>

V116 == Version(1, 16, 3)
V117 == Version(1, 17, 0)

\* The --kubernetes-version inputs a run may be started with, the --upgrade-id
\* of the runs, and the upgrade id of an earlier upgrade that was given up.
InputVersions == {V116, V117}
UpgradeIDs == {<<"1">>}
OtherUpgradeID == <<"9">>

Nil == "nil"
NoAnnotation == <<>>
\* A nil Machine.Spec.ProviderID, and "no node" for a *v1.Node.
NoProviderID == <<>>
NoNode == <<>>

\* cluster-name suffixes of the four PKI secrets reparented by the tool.
secretNames == <<"ca", "etcd", "sa", "proxy">>

VARIABLES
    \* management cluster
    machines,      \* name -> [providerID, version, annot, deleting]
    infras,        \* names of the infrastructure objects
    bootstraps,    \* name -> [init, join]: the KubeadmConfig's node registrations
    secrets,       \* index in secretNames -> name of the owning KubeadmConfig
    \* target cluster
    nodes,         \* provider ids (= names = hostnames) of the registered Nodes
    readyHosts,    \* hostnames whose four control-plane pods have all conditions True
    etcdMembers,   \* names of the etcd members
    kubeadm,       \* kubernetesVersion of kube-system/kubeadm-config
    kubeletCMs,    \* <<major, minor>> -> data of kubelet-config-M.N
    kubeletRBAC,   \* <<major, minor>> with Role and RoleBinding kubeadm:kubelet-config-M.N
    \* the ControlPlaneUpgrader instance and the position of Upgrade()
    pc, err, upgradeID, userVersion, desiredVersion,
    mlist,         \* the listed machines, as held in memory
    i,             \* index of the range loop in progress
    providerIDsToNodes, oldNodeToEtcdMember, secretsUpdated,
    newProviderID, matchingNode,
    \* what the run in progress has done so far, for the properties
    created,       \* replacement Machines this run created
    wrote,         \* kinds of writes this run made
    events,        \* what happened for the machine being replaced, in order
    readySeen,     \* hostnames a readiness wait of this run saw ready
    skipped,       \* listed machines the loop of updateMachines skipped, with the reason
    lookedUp,      \* listed machines whose replacement the last loop fetched
    startReady,    \* machines when the run started, if all were ready; else 0
    startReplaced, \* machines at that time whose replacement Machine existed
    \* a function of this file applied on its own: its inputs and its results
    call

cluster == <<machines, infras, bootstraps, secrets, nodes, readyHosts, etcdMembers,
             kubeadm, kubeletCMs, kubeletRBAC>>
upgrader == <<pc, err, upgradeID, userVersion, desiredVersion, mlist, i,
              providerIDsToNodes, oldNodeToEtcdMember, secretsUpdated,
              newProviderID, matchingNode>>
record == <<created, wrote, events, readySeen, skipped, lookedUp,
           startReady, startReplaced>>
vars == <<cluster, upgrader, record, call>>

Machine(pid, version, annot) ==
    [providerID |-> pid, version |-> version, annot |-> annot, deleting |-> FALSE]

\* Two healthy control-plane machines at v1.16.3; c0 was the first node of the
\* cluster (InitConfiguration, owner of the PKI secrets), c1 joined it.  c1 is
\* either not annotated or still annotated by an earlier upgrade.
InitControlPlaneAt(version0, version1) ==
    /\ \E annot \in {NoAnnotation, OtherUpgradeID} :
         machines = (c0 :> Machine(c0, version0, NoAnnotation)) @@
                    (c1 :> Machine(c1, version1, annot))
    /\ infras = {c0, c1}
    /\ nodes = {c0, c1}
    /\ readyHosts = {c0, c1}
    /\ etcdMembers = {c0, c1}
    /\ bootstraps = (c0 :> [init |-> "reg-c0", join |-> Nil]) @@
                    (c1 :> [init |-> Nil, join |-> "reg-c1"])
    /\ secrets = [k \in 1..Len(secretNames) |-> c0]
    /\ kubeadm = V116
    /\ kubeletCMs = (<<1, 16>> :> "kubelet-1.16")
    /\ kubeletRBAC = {<<1, 16>>}
    /\ pc = "idle" /\ err = "" /\ upgradeID = <<>>
    /\ userVersion = unsetVersion /\ desiredVersion = unsetVersion
    /\ mlist = <<>> /\ i = 0
    /\ providerIDsToNodes = {} /\ oldNodeToEtcdMember = {}
    /\ secretsUpdated = FALSE
    /\ newProviderID = NoProviderID /\ matchingNode = NoNode
    /\ created = {} /\ wrote = {} /\ events = <<>> /\ readySeen = {}
    /\ skipped = {} /\ lookedUp = {}
    /\ startReady = 0 /\ startReplaced = 0

InitControlPlane == InitControlPlaneAt(SpecVersion(V116), SpecVersion(V116))

\* No function is applied on its own.
NoCall == [fn |-> "none"]

Init == InitControlPlane /\ call = NoCall

\* ------------------------------------------------- the run: entry and exit

LiveMachines == {n \in DOMAIN machines : ~machines[n].deleting}

\* The machines whose node passes the readiness check.
ReadyMachines == {n \in LiveMachines : machines[n].providerID \in readyHosts}

\* The instance is gone: Upgrade() returned, or the process died.
InstanceGone ==
    /\ upgradeID' = <<>>
    /\ userVersion' = unsetVersion /\ desiredVersion' = unsetVersion
    /\ mlist' = <<>> /\ i' = 0
    /\ providerIDsToNodes' = {} /\ oldNodeToEtcdMember' = {}
    /\ secretsUpdated' = FALSE
    /\ newProviderID' = NoProviderID /\ matchingNode' = NoNode
    /\ created' = {} /\ events' = <<>> /\ readySeen' = {}
    /\ startReady' = 0 /\ startReplaced' = 0

\* Upgrade() returns cause ("" for nil).
Return(cause) ==
    /\ pc' = "done"
    /\ err' = cause
    /\ InstanceGone
    /\ UNCHANGED <<skipped, lookedUp>>

\* NewControlPlaneUpgrader followed by Upgrade(): a fresh instance per run.
StartUpgrade(id, version) ==
    /\ pc \in {"idle", "done"}
    /\ pc' = "listMachines"
    /\ err' = ""
    /\ upgradeID' = id
    /\ userVersion' = version
    /\ desiredVersion' = version
    /\ mlist' = <<>> /\ i' = 0
    /\ providerIDsToNodes' = {} /\ oldNodeToEtcdMember' = {}
    /\ secretsUpdated' = FALSE
    /\ newProviderID' = NoProviderID /\ matchingNode' = NoNode
    /\ created' = {} /\ wrote' = {} /\ events' = <<>> /\ readySeen' = {}
    /\ skipped' = {} /\ lookedUp' = {}
    /\ startReady' = IF ReadyMachines = LiveMachines
                     THEN Cardinality(LiveMachines) ELSE 0
    /\ startReplaced' =
          Cardinality({o \in LiveMachines :
                         LET r == generateReplacementMachineName(o, id)
                         IN  r # o /\ r \in DOMAIN machines})
    /\ UNCHANGED cluster
    /\ UNCHANGED call

\* Variants of the two orders below, in which a step is moved or left out;
\* the properties that rest on the order fail under them.
UpgradeStepsHealthCheckLate == <<"providerIDs", "kubeadm", "etcdHealth", "updateMachines">>

MachineStepsDeleteLeftOut ==
    <<"infra", "bootstrap", "machine", "waitProviderID", "waitNode",
      "waitReady", "refreshNodes", "removeMember">>

MachineStepsReadyWaitLeftOut ==
    <<"infra", "bootstrap", "machine", "waitProviderID", "waitNode",
      "refreshNodes", "removeMember", "deleteMachine">>

MachineStepsMachineFirst ==
    <<"infra", "machine", "bootstrap", "waitProviderID", "waitNode",
      "waitReady", "refreshNodes", "removeMember", "deleteMachine">>

MachineStepsDeleteBeforeRemoval ==
    <<"infra", "bootstrap", "machine", "waitProviderID", "waitNode",
      "waitReady", "refreshNodes", "deleteMachine", "removeMember">>

\* The order of the steps of Upgrade() after the version resolution, and of
\* the steps of one iteration of updateMachines once a machine is selected.
UpgradeSteps == <<"etcdHealth", "providerIDs", "kubeadm", "updateMachines">>

MachineSteps == <<"infra", "bootstrap", "machine", "waitProviderID", "waitNode",
                  "waitReady", "refreshNodes", "removeMember", "deleteMachine">>

\* The step after `step` in `steps`, or `last` after the last one.
StepAfter(steps, step, last) ==
    LET k == CHOOSE j \in 1..Len(steps) : steps[j] = step
    IN  IF k < Len(steps) THEN steps[k + 1] ELSE last

\* The loop of updateMachines moves on from machine k: to the next machine, or
\* out of the loop and into the annotation-removal loop of Upgrade().
NextMachine(k) ==
    IF k < Len(mlist)
    THEN pc' = "loop" /\ i' = k + 1
    ELSE pc' = "removeAnnotations" /\ i' = 1

\* One step of a machine's iteration is done: on to the next step.
NextMachineStep(step) ==
    LET next == StepAfter(MachineSteps, step, "loop")
    IN  IF next = "loop" THEN NextMachine(i) ELSE pc' = next /\ i' = i

replacementMachineName == generateReplacementMachineName(mlist[i].name, upgradeID)

\* What an action of the run leaves alone besides pc, err and i.
instance == <<upgradeID, userVersion, desiredVersion, mlist, providerIDsToNodes,
              oldNodeToEtcdMember, secretsUpdated, newProviderID,
              matchingNode>>

\* ------------------------------------------- Upgrade(): before the machines

\* listMachines: the control-plane Machines without a deletion timestamp, in
\* the order the API server lists them.
listMachines ==
    LET names == SortNames(LiveMachines)
    IN  [k \in 1..Len(names) |->
            [name |-> names[k],
             providerID |-> machines[names[k]].providerID,
             version |-> machines[names[k]].version,
             annot |-> machines[names[k]].annot]]

\* Upgrade(), up to the decision whether the kubelet resources are needed.
ListMachines ==
    /\ pc = "listMachines"
    /\ LET list == listMachines
           mm == minMaxControlPlaneVersions(list)
           desired == IF userVersion = unsetVersion THEN mm.max ELSE desiredVersion
       IN  IF list = <<>>
           THEN Return("Found 0 control plane machines") /\ wrote' = wrote
           ELSE IF mm.err
           THEN Return("error determining current control plane versions")
                /\ wrote' = wrote
           ELSE /\ mlist' = list
                /\ desiredVersion' = desired
                /\ pc' = IF isMinorVersionUpgrade(mm.min, desired)
                         THEN "kubeletConfigMap" ELSE UpgradeSteps[1]
                /\ UNCHANGED <<err, upgradeID, userVersion, i, providerIDsToNodes,
                               oldNodeToEtcdMember, secretsUpdated, newProviderID, matchingNode, record>>
    /\ UNCHANGED cluster
    /\ UNCHANGED call

\* version.Minor - 1 on a uint64.
previousMinor(minor) == IF minor = 0 THEN -1 ELSE minor - 1

\* updateKubeletConfigMapIfNeeded(desiredVersion).
UpdateKubeletConfigMapIfNeeded ==
    /\ pc = "kubeletConfigMap"
    /\ LET desiredName == <<desiredVersion.major, desiredVersion.minor>>
           previousName == <<desiredVersion.major, previousMinor(desiredVersion.minor)>>
           create(data) ==
               /\ kubeletCMs' = (desiredName :> data) @@ kubeletCMs
               /\ wrote' = wrote \cup {"kubelet"}
               /\ pc' = "kubeletRbac"
               /\ UNCHANGED <<err, i, instance, created, events, readySeen,
                              skipped, lookedUp, startReady, startReplaced>>
       IN  \/ /\ desiredName \in DOMAIN kubeletCMs
              /\ pc' = "kubeletRbac"
              /\ UNCHANGED <<kubeletCMs, err, i, instance, record>>
           \/ /\ desiredName \notin DOMAIN kubeletCMs
              /\ previousName \notin DOMAIN kubeletCMs
              /\ Return("unable to find current kubelet configmap")
              /\ UNCHANGED <<kubeletCMs, wrote>>
           \/ /\ desiredName \notin DOMAIN kubeletCMs
              /\ previousName \in DOMAIN kubeletCMs
              /\ create(kubeletCMs[previousName])
           \* the second Get fails with an error other than NotFound: the
           \* object it returned, an empty ConfigMap, is renamed and created
           \/ /\ desiredName \notin DOMAIN kubeletCMs
              /\ create("")
    /\ UNCHANGED <<machines, infras, bootstraps, secrets, nodes, readyHosts,
                   etcdMembers, kubeadm, kubeletRBAC>>
    /\ UNCHANGED call

\* updateKubeletRbacIfNeeded(desiredVersion): the Role, then the RoleBinding.
UpdateKubeletRbacIfNeeded ==
    /\ pc = "kubeletRbac"
    /\ LET majorMinor == <<desiredVersion.major, desiredVersion.minor>>
       IN  /\ kubeletRBAC' = kubeletRBAC \cup {majorMinor}
           /\ wrote' = IF majorMinor \in kubeletRBAC THEN wrote
                       ELSE wrote \cup {"kubelet"}
    /\ pc' = UpgradeSteps[1]
    /\ UNCHANGED <<machines, infras, bootstraps, secrets, nodes, readyHosts,
                   etcdMembers, kubeadm, kubeletCMs>>
    /\ UNCHANGED <<err, i, instance, created, events, readySeen, skipped,
                   lookedUp, startReady, startReplaced>>
    /\ UNCHANGED call

\* listEtcdPods: one etcd pod per registered control-plane node.
listEtcdPods == nodes

\* etcdClusterHealthCheck: etcdctl member list, then endpoint health over the
\* members' client URLs; a member that does not answer fails the check.
EtcdClusterHealthCheck ==
    /\ pc = "etcdHealth"
    /\ \/ /\ listEtcdPods # {}
          /\ pc' = StepAfter(UpgradeSteps, "etcdHealth", "updateMachines")
          /\ UNCHANGED <<err, i, instance, record>>
       \/ Return("etcd unhealthy") /\ wrote' = wrote
    /\ UNCHANGED cluster
    /\ UNCHANGED call

\* UpdateProviderIDsToNodes: the map from provider id to Node, rebuilt from a
\* listing of the Nodes.
UpdateProviderIDsToNodes ==
    /\ pc \in {"providerIDs", "refreshNodes"}
    /\ providerIDsToNodes' = nodes
    /\ IF pc = "providerIDs"
       THEN pc' = StepAfter(UpgradeSteps, "providerIDs", "updateMachines") /\ i' = i
       ELSE NextMachineStep("refreshNodes")
    /\ UNCHANGED <<err, upgradeID, userVersion, desiredVersion, mlist,
                   oldNodeToEtcdMember, secretsUpdated, newProviderID, matchingNode, record>>
    /\ UNCHANGED cluster
    /\ UNCHANGED call

\* updateAndUploadKubeadmKubernetesVersion: kubernetesVersion of the kubeadm
\* ConfigMap becomes "v" + desiredVersion.
UpdateAndUploadKubeadmKubernetesVersion ==
    /\ pc = "kubeadm"
    /\ kubeadm' = desiredVersion
    /\ wrote' = wrote \cup {"kubeadm"}
    /\ pc' = StepAfter(UpgradeSteps, "kubeadm", "updateMachines")
    /\ UNCHANGED <<machines, infras, bootstraps, secrets, nodes, readyHosts,
                   etcdMembers, kubeletCMs, kubeletRBAC>>
    /\ UNCHANGED <<err, i, instance, created, events, readySeen, skipped,
                   lookedUp, startReady, startReplaced>>
    /\ UNCHANGED call

\* oldNodeToEtcdMemberId: the etcd members by name, saved before the loop of
\* updateMachines starts.
OldNodeToEtcdMemberId ==
    /\ pc = "updateMachines"
    /\ oldNodeToEtcdMember' = etcdMembers
    /\ pc' = "loop" /\ i' = 1
    /\ UNCHANGED <<err, upgradeID, userVersion, desiredVersion, mlist,
                   providerIDsToNodes, secretsUpdated, newProviderID, matchingNode, record>>
    /\ UNCHANGED cluster
    /\ UNCHANGED call

\* ------------------------------------------------ updateMachines: the loop

\* What the steps of an iteration leave alone in the instance.
iteration == <<err, upgradeID, userVersion, desiredVersion, mlist,
               providerIDsToNodes, oldNodeToEtcdMember>>

\* A variant of the test below that lets every machine through.
neverMismatching(machine) == FALSE

\* "Don't process a mismatching upgrade ID".
mismatchingUpgradeID(machine) == machine.annot # upgradeID

\* A variant of the test below that finds no machine to be a replacement.
neverReplacement(machine) == FALSE

\* "Skip if this is a replacement machine for the current upgrade".
replacementOfCurrentUpgrade(machine) == HasSuffix(machine.name, upgradeSuffix(upgradeID))

\* The head of an iteration of the loop: the checks that skip a machine, and
\* the upgrade-id annotation of a machine that has none.
SelectMachine ==
    /\ pc = "loop"
    /\ LET machine == mlist[i]
           skip(reason) ==
               /\ skipped' = skipped \cup {[name |-> machine.name, reason |-> reason]}
               /\ NextMachine(i)
               /\ events' = <<>>
           select ==
               IF replacementOfCurrentUpgrade(machine)
               THEN skip("replacement")
               ELSE pc' = MachineSteps[1] /\ i' = i /\ events' = <<>>
                    /\ skipped' = skipped
       IN  IF machine.providerID = NoProviderID
           THEN /\ skip("no providerID")
                /\ UNCHANGED <<machines, mlist, wrote>>
           ELSE IF machine.annot = NoAnnotation
           THEN \* the patch that stores the upgrade id
                \/ /\ machine.name \in DOMAIN machines
                   /\ machines' = [machines EXCEPT ![machine.name].annot = upgradeID]
                   /\ mlist' = [mlist EXCEPT ![i].annot = upgradeID]
                   /\ wrote' = wrote \cup {"management"}
                   /\ select
                \* the patch fails: logged, and on to the next machine
                \/ /\ mlist' = [mlist EXCEPT ![i].annot = upgradeID]
                   /\ skip("patch failed")
                   /\ UNCHANGED <<machines, wrote>>
           ELSE IF mismatchingUpgradeID(machine)
           THEN /\ skip("mismatching upgrade id")
                /\ UNCHANGED <<machines, mlist, wrote>>
           ELSE select /\ UNCHANGED <<machines, mlist, wrote>>
    /\ UNCHANGED <<infras, bootstraps, secrets, nodes, readyHosts, etcdMembers,
                   kubeadm, kubeletCMs, kubeletRBAC>>
    /\ UNCHANGED <<err, upgradeID, userVersion, desiredVersion, providerIDsToNodes,
                   oldNodeToEtcdMember, secretsUpdated, newProviderID, matchingNode>>
    /\ UNCHANGED <<created, readySeen, lookedUp, startReady, startReplaced>>
    /\ UNCHANGED call

\* A variant of the probe below that finds nothing.
resourceNeverExists(kind, name) == FALSE

\* resourceExists: a Get of the object; NotFound is false.  (Another error of
\* the Get is the failure of a remote call.)
resourceExists(kind, name) ==
    CASE kind = "infra" -> name \in infras
      [] kind = "KubeadmConfig" -> name \in DOMAIN bootstraps
      [] kind = "Machine" -> name \in DOMAIN machines

\* updateInfrastructureReference: a copy of the machine's infrastructure object
\* under the replacement's name, unless one exists.
UpdateInfrastructureReference ==
    /\ pc = "infra"
    /\ LET name == replacementMachineName
       IN  IF resourceExists("infra", name)
           THEN /\ NextMachineStep("infra")
                /\ events' = Append(events, "infra")
                /\ UNCHANGED <<infras, wrote, skipped, lookedUp, created,
                               readySeen, startReady, startReplaced, iteration, secretsUpdated,
                               newProviderID, matchingNode>>
           ELSE IF mlist[i].name \notin infras
           THEN Return("infrastructure object not found")
                /\ UNCHANGED <<infras, wrote>>
           ELSE /\ infras' = infras \cup {name}
                /\ wrote' = wrote \cup {"management"}
                /\ NextMachineStep("infra")
                /\ events' = Append(events, "infra")
                /\ UNCHANGED <<skipped, lookedUp, created, readySeen, startReady, startReplaced,
                               iteration, secretsUpdated, newProviderID, matchingNode>>
    /\ UNCHANGED <<machines, bootstraps, secrets, nodes, readyHosts, etcdMembers,
                   kubeadm, kubeletCMs, kubeletRBAC>>
    /\ UNCHANGED call

\* The replacement KubeadmConfig: the source's node registration (the init one
\* if there is one, else the join one) in a JoinConfiguration, and no
\* InitConfiguration.
replacementBootstrap(source) ==
    [init |-> Nil,
     join |-> IF source.init # Nil THEN source.init ELSE source.join]

\* A variant of the latch below that is never set.
neverUpdated == FALSE

\* "Return early if we've already updated the ownerRefs".
alreadyUpdated == secretsUpdated

\* updateBootstrapConfig up to the secrets: nothing to do if the replacement
\* KubeadmConfig exists; else it is created, and the secrets are reparented to
\* it unless this instance has done that before.
UpdateBootstrapConfig ==
    /\ pc = "bootstrap"
    /\ LET name == replacementMachineName
           onwards ==
               /\ events' = Append(events, "bootstrap")
               /\ UNCHANGED <<skipped, lookedUp, created, readySeen, startReady, startReplaced,
                              iteration, secretsUpdated, newProviderID, matchingNode>>
       IN  IF resourceExists("KubeadmConfig", name)
           THEN /\ NextMachineStep("bootstrap")
                /\ onwards
                /\ UNCHANGED <<bootstraps, wrote>>
           ELSE IF mlist[i].name \notin DOMAIN bootstraps
           THEN Return("bootstrap config not found")
                /\ UNCHANGED <<bootstraps, wrote>>
           ELSE /\ bootstraps' = (name :> replacementBootstrap(bootstraps[mlist[i].name]))
                                 @@ bootstraps
                /\ wrote' = wrote \cup {"management"}
                /\ onwards
                /\ IF alreadyUpdated
                   THEN NextMachineStep("bootstrap")
                   ELSE pc' = "secrets" /\ i' = i
    /\ UNCHANGED <<machines, infras, secrets, nodes, readyHosts, etcdMembers,
                   kubeadm, kubeletCMs, kubeletRBAC>>
    /\ UNCHANGED call

\* The loop over secretNames that ends updateBootstrapConfig: each secret gets
\* the replacement KubeadmConfig as its only owner, and the instance remembers
\* that it has done so.
ReparentSecrets ==
    /\ pc = "secrets"
    /\ secrets' = [k \in 1..Len(secretNames) |-> replacementMachineName]
    /\ secretsUpdated' = TRUE
    /\ wrote' = wrote \cup {"management"}
    /\ NextMachineStep("bootstrap")
    /\ UNCHANGED <<machines, infras, bootstraps, nodes, readyHosts, etcdMembers,
                   kubeadm, kubeletCMs, kubeletRBAC>>
    /\ UNCHANGED <<iteration, newProviderID, matchingNode, created,
                   events, readySeen, skipped, lookedUp, startReady, startReplaced>>
    /\ UNCHANGED call

\* GetNodeFromProviderID: the node in the map, or NoNode.
GetNodeFromProviderID(providerID) ==
    IF providerID \in providerIDsToNodes THEN providerID ELSE NoNode

\* hostnameForNode of the old machine's node, as updateMachine determines it.
oldHostName == GetNodeFromProviderID(mlist[i].providerID)

\* updateMachine up to the waits: the old node is looked up, and the
\* replacement Machine is created unless a Machine of that name exists.
CreateReplacementMachine ==
    /\ pc = "machine"
    /\ LET name == replacementMachineName
           onwards ==
               /\ NextMachineStep("machine")
               /\ events' = Append(events, "machine")
               /\ UNCHANGED <<skipped, lookedUp, readySeen, startReady, startReplaced, iteration,
                              secretsUpdated, newProviderID, matchingNode>>
       IN  IF oldHostName = NoNode
           THEN Return("unknown previous node")
                /\ UNCHANGED <<machines, wrote>>
           ELSE IF resourceExists("Machine", name)
           THEN onwards /\ UNCHANGED <<machines, wrote, created>>
           ELSE /\ machines' = (name :> Machine(NoProviderID, SpecVersion(desiredVersion),
                                                mlist[i].annot)) @@ machines
                /\ wrote' = wrote \cup {"management"}
                /\ created' = created \cup {name}
                /\ onwards
    /\ UNCHANGED <<infras, bootstraps, secrets, nodes, readyHosts, etcdMembers,
                   kubeadm, kubeletCMs, kubeletRBAC>>
    /\ UNCHANGED call

\* waitForProviderID: polls the replacement Machine until its spec.providerID
\* is set.
WaitForProviderID ==
    /\ pc = "waitProviderID"
    /\ LET name == replacementMachineName
       IN  /\ name \in DOMAIN machines
           /\ machines[name].providerID # NoProviderID
           /\ newProviderID' = machines[name].providerID
    /\ NextMachineStep("waitProviderID")
    /\ events' = Append(events, "providerID")
    /\ UNCHANGED <<iteration, secretsUpdated, matchingNode>>
    /\ UNCHANGED <<created, wrote, readySeen, skipped, lookedUp, startReady, startReplaced>>
    /\ UNCHANGED cluster
    /\ UNCHANGED call

\* waitForMatchingNode: polls the Nodes until one has the provider id.
WaitForMatchingNode ==
    /\ pc = "waitNode"
    /\ newProviderID \in nodes
    /\ matchingNode' = newProviderID
    /\ NextMachineStep("waitNode")
    /\ events' = Append(events, "node")
    /\ UNCHANGED <<iteration, secretsUpdated, newProviderID>>
    /\ UNCHANGED <<created, wrote, readySeen, skipped, lookedUp, startReady, startReplaced>>
    /\ UNCHANGED cluster
    /\ UNCHANGED call

\* Variants of the readiness check below that are satisfied by any host, and
\* by none.
isReadyAlways(nodeHostname) == TRUE

isReadyNever(nodeHostname) == FALSE

\* isReady: the etcd, kube-apiserver, kube-scheduler and
\* kube-controller-manager pods of the host have the four conditions True.
isReady(nodeHostname) == nodeHostname \in readyHosts

\* waitForNodeReady: polls isReady for the new node's hostname.
WaitForNodeReady ==
    /\ pc = "waitReady"
    /\ isReady(matchingNode)
    /\ readySeen' = readySeen \cup {h \in {matchingNode} : h \in readyHosts}
    /\ NextMachineStep("waitReady")
    /\ events' = Append(events, "ready")
    /\ UNCHANGED <<iteration, secretsUpdated, newProviderID, matchingNode>>
    /\ UNCHANGED <<created, wrote, skipped, lookedUp, startReady, startReplaced>>
    /\ UNCHANGED cluster
    /\ UNCHANGED call

NoMember == <<>>

\* A variant of the lookup below that takes the member of the replacement's
\* node from the members as they are now.
newEtcdMemberID == IF matchingNode \in etcdMembers THEN matchingNode ELSE NoMember

\* u.oldNodeToEtcdMember[oldHostName]: the member saved before the loop under
\* the hostname of the old node, "" without one.
oldEtcdMemberID == IF oldHostName \in oldNodeToEtcdMember THEN oldHostName ELSE NoMember

\* deleteEtcdMember for the old node, if the members saved before the loop
\* have one of its hostname.  Without its member the etcd pod of the old node
\* is no longer ready.
DeleteEtcdMember ==
    /\ pc = "removeMember"
    /\ IF oldEtcdMemberID # NoMember
       THEN IF oldEtcdMemberID \in etcdMembers
            THEN /\ etcdMembers' = etcdMembers \ {oldEtcdMemberID}
                 /\ readyHosts' = readyHosts \ {oldEtcdMemberID}
                 /\ wrote' = wrote \cup {"etcd member"}
                 /\ events' = Append(events, "remove")
                 /\ NextMachineStep("removeMember")
                 /\ UNCHANGED <<iteration, secretsUpdated, newProviderID,
                                matchingNode, created, readySeen, skipped, lookedUp, startReady, startReplaced>>
            ELSE Return("unable to delete old etcd member")
                 /\ UNCHANGED <<etcdMembers, readyHosts, wrote>>
       ELSE /\ NextMachineStep("removeMember")
            /\ UNCHANGED <<etcdMembers, readyHosts, iteration, secretsUpdated,
                           newProviderID, matchingNode, record>>
    /\ UNCHANGED <<machines, infras, bootstraps, secrets, nodes, kubeadm,
                   kubeletCMs, kubeletRBAC>>
    /\ UNCHANGED call

\* The Delete of the old Machine that ends updateMachine: the Machine gets its
\* deletion timestamp.
DeleteMachine ==
    /\ pc = "deleteMachine"
    /\ LET name == mlist[i].name
       IN  IF name \in DOMAIN machines
           THEN /\ machines' = [machines EXCEPT ![name].deleting = TRUE]
                /\ wrote' = wrote \cup {"management"}
                /\ events' = Append(events, "delete")
                /\ NextMachineStep("deleteMachine")
                /\ UNCHANGED <<iteration, secretsUpdated, newProviderID,
                               matchingNode, created, readySeen, skipped, lookedUp, startReady, startReplaced>>
           ELSE Return("error deleting machine") /\ UNCHANGED <<machines, wrote>>
    /\ UNCHANGED <<infras, bootstraps, secrets, nodes, readyHosts, etcdMembers,
                   kubeadm, kubeletCMs, kubeletRBAC>>
    /\ UNCHANGED call

\* ------------------------------------- Upgrade(): removing the annotations

\* One round of the last loop of Upgrade(), over every listed machine: the
\* Machine named as the replacement is fetched and patched without the
\* upgrade-id annotation.  After the last round Upgrade() returns nil.
RemoveUpgradeAnnotation ==
    /\ pc = "removeAnnotations"
    /\ LET replacementName == generateReplacementMachineName(mlist[i].name, upgradeID)
       IN  IF replacementName \notin DOMAIN machines
           THEN /\ pc' = "done"
                /\ err' = "error getting machine"
                /\ InstanceGone
                /\ lookedUp' = lookedUp \cup {mlist[i].name}
                /\ UNCHANGED <<machines, wrote, skipped>>
           ELSE /\ machines' = [machines EXCEPT ![replacementName].annot = NoAnnotation]
                /\ wrote' = IF machines[replacementName].annot = NoAnnotation THEN wrote
                            ELSE wrote \cup {"annotation removed"}
                /\ IF i < Len(mlist)
                   THEN /\ i' = i + 1
                        /\ lookedUp' = lookedUp \cup {mlist[i].name}
                        /\ UNCHANGED <<pc, iteration, secretsUpdated, newProviderID, matchingNode, created, events,
                                       readySeen, skipped, startReady, startReplaced>>
                   ELSE /\ pc' = "done"
                        /\ err' = ""
                        /\ InstanceGone
                        /\ lookedUp' = lookedUp \cup {mlist[i].name}
                        /\ skipped' = skipped
    /\ UNCHANGED <<infras, bootstraps, secrets, nodes, readyHosts, etcdMembers,
                   kubeadm, kubeletCMs, kubeletRBAC>>
    /\ UNCHANGED call

\* ------------------------------------------------- failures of the run

\* The positions of the run at a call to a cluster that can return an error
\* which the run returns.
FalliblePoints ==
    {"listMachines", "kubeletConfigMap", "kubeletRbac", "providerIDs", "kubeadm",
     "updateMachines", "infra", "bootstrap", "secrets", "machine", "refreshNodes",
     "removeMember", "deleteMachine", "removeAnnotations"}

RemoteCallFails ==
    /\ pc \in FalliblePoints
    /\ Return(IF pc = "removeMember" THEN "unable to delete old etcd member"
              ELSE "remote call failed")
    /\ UNCHANGED <<cluster, wrote>>
    /\ UNCHANGED call

\* A variant of the handling below that notes the timeout and carries on
\* with the next step of the machine.
timeoutPassedOver(step) ==
    /\ err' = "timed out"
    /\ NextMachineStep(step)
    /\ UNCHANGED <<instance, created, events, readySeen, startReady, startReplaced,
                   skipped, lookedUp>>

\* "if err != nil { return err }" after each wait of updateMachine, and again
\* in updateMachines and in Upgrade.
timeoutReturned(step) == Return("timed out")

\* wait.PollImmediate gives up: the three waits return the timeout.
WaitTimesOut ==
    /\ pc \in {"waitProviderID", "waitNode", "waitReady"}
    /\ timeoutReturned(pc)
    /\ UNCHANGED <<cluster, wrote>>
    /\ UNCHANGED call

\* The process dies; nothing is returned to anybody.
Crash ==
    /\ pc \notin {"idle", "done"}
    /\ pc' = "done"
    /\ err' = "crash"
    /\ InstanceGone
    /\ wrote' = {} /\ skipped' = {} /\ lookedUp' = {}
    /\ UNCHANGED cluster
    /\ UNCHANGED call

\* ------------------------------------------------------- the environment

\* The infrastructure provider gives a Machine its provider id.
InfraSetsProviderID(n) ==
    /\ n \in infras
    /\ ~machines[n].deleting
    /\ machines[n].providerID = NoProviderID
    /\ machines' = [machines EXCEPT ![n].providerID = n]
    /\ UNCHANGED <<infras, bootstraps, secrets, nodes, readyHosts, etcdMembers,
                   kubeadm, kubeletCMs, kubeletRBAC, upgrader, record>>
    /\ UNCHANGED call

\* kubeadm join on the new host: an etcd member and a Node.
NodeJoins(n) ==
    /\ ~machines[n].deleting
    /\ machines[n].providerID # NoProviderID
    /\ machines[n].providerID \notin nodes
    /\ nodes' = nodes \cup {machines[n].providerID}
    /\ etcdMembers' = etcdMembers \cup {machines[n].providerID}
    /\ UNCHANGED <<machines, infras, bootstraps, secrets, readyHosts,
                   kubeadm, kubeletCMs, kubeletRBAC, upgrader, record>>
    /\ UNCHANGED call

\* The control-plane pods of a node come up.
PodsBecomeReady(n) ==
    /\ n \in etcdMembers
    /\ n \notin readyHosts
    /\ readyHosts' = readyHosts \cup {n}
    /\ UNCHANGED <<machines, infras, bootstraps, secrets, nodes, etcdMembers,
                   kubeadm, kubeletCMs, kubeletRBAC, upgrader, record>>
    /\ UNCHANGED call

\* The Machine controller finishes a deletion: the Machine, its infrastructure
\* object, its KubeadmConfig and its Node go.  No step of a run reads any of
\* these for a Machine that has its deletion timestamp, so the deletions are
\* taken between the runs.
MachineFinalized(n) ==
    /\ pc \in {"idle", "done"}
    /\ machines[n].deleting
    /\ machines' = [m \in DOMAIN machines \ {n} |-> machines[m]]
    /\ infras' = infras \ {n}
    /\ bootstraps' = [b \in DOMAIN bootstraps \ {n} |-> bootstraps[b]]
    /\ nodes' = nodes \ {machines[n].providerID}
    /\ readyHosts' = readyHosts \ {machines[n].providerID}
    /\ UNCHANGED <<secrets, etcdMembers, kubeadm, kubeletCMs, kubeletRBAC,
                   upgrader, record>>
    /\ UNCHANGED call

\* ---------------------------------------------------------- specification

\* The steps of a run after its start, and the steps of the environment.
Step ==
    \/ ListMachines
    \/ UpdateKubeletConfigMapIfNeeded
    \/ UpdateKubeletRbacIfNeeded
    \/ EtcdClusterHealthCheck
    \/ UpdateProviderIDsToNodes
    \/ UpdateAndUploadKubeadmKubernetesVersion
    \/ OldNodeToEtcdMemberId
    \/ SelectMachine
    \/ UpdateInfrastructureReference
    \/ UpdateBootstrapConfig
    \/ ReparentSecrets
    \/ CreateReplacementMachine
    \/ WaitForProviderID
    \/ WaitForMatchingNode
    \/ WaitForNodeReady
    \/ DeleteEtcdMember
    \/ DeleteMachine
    \/ RemoveUpgradeAnnotation
    \/ RemoteCallFails
    \/ WaitTimesOut
    \/ Crash
    \/ \E n \in DOMAIN machines : InfraSetsProviderID(n)
    \/ \E n \in DOMAIN machines : NodeJoins(n)
    \/ \E n \in nodes : PodsBecomeReady(n)
    \/ \E n \in DOMAIN machines : MachineFinalized(n)

\* Runs with any of the inputs, one after the other.
Next ==
    \/ \E id \in UpgradeIDs, version \in InputVersions : StartUpgrade(id, version)
    \/ Step

Spec == Init /\ [][Next]_vars

\* The inputs of the runs that are repeated with the same inputs.
SameInputs == [id |-> <<"1">>, version |-> V117]

\* Every run is started with the same upgrade id and the same version.
NextSameInputs ==
    \/ StartUpgrade(SameInputs.id, SameInputs.version)
    \/ Step

SpecSameInputs == Init /\ [][NextSameInputs]_vars

\* The steps of a run in which every call to a cluster succeeds and no wait
\* runs out.
RunSucceeds ==
    \/ ListMachines
    \/ UpdateKubeletConfigMapIfNeeded /\ \A n \in DOMAIN kubeletCMs' : kubeletCMs'[n] # ""
    \/ UpdateKubeletRbacIfNeeded
    \/ EtcdClusterHealthCheck /\ pc' # "done"
    \/ UpdateProviderIDsToNodes
    \/ UpdateAndUploadKubeadmKubernetesVersion
    \/ OldNodeToEtcdMemberId
    \/ SelectMachine /\ \A s \in skipped' : s.reason # "patch failed"
    \/ UpdateInfrastructureReference
    \/ UpdateBootstrapConfig
    \/ ReparentSecrets
    \/ CreateReplacementMachine
    \/ WaitForProviderID
    \/ WaitForMatchingNode
    \/ WaitForNodeReady
    \/ DeleteEtcdMember
    \/ DeleteMachine
    \/ RemoveUpgradeAnnotation

\* The controllers of the environment.
Environment ==
    \/ \E n \in DOMAIN machines : InfraSetsProviderID(n)
    \/ \E n \in DOMAIN machines : NodeJoins(n)
    \/ \E n \in nodes : PodsBecomeReady(n)
    \/ \E n \in DOMAIN machines : MachineFinalized(n)

NextCallsSucceed ==
    \/ \E id \in UpgradeIDs, version \in InputVersions : StartUpgrade(id, version)
    \/ RunSucceeds
    \/ Environment

\* Runs whose calls succeed: a run that can take a step takes one, and the
\* infrastructure sets provider ids, registers nodes and makes pods ready
\* before a wait runs out.
SpecCallsSucceed ==
    /\ Init
    /\ [][NextCallsSucceed]_vars
    /\ WF_vars(RunSucceeds)
    /\ WF_vars(Environment)

\* ------------------------------------------- the name generator on its own

Repeat(c, n) == [k \in 1..n |-> c]

\* How many times in a row a name is given to generateReplacementMachineName.
MaxUpgrades == 2

\* Machine names: a root of one repeated letter, short or near the longest
\* name the API server admits, alone or with the tail of an earlier upgrade.
\* "upgrade.1" is a name too.
RootLengths == {0, 1, 2, 242, 243, 244, 252, 253}
NameTails ==
    {<<>>, upgradeSuffix(<<"1">>), upgradeSuffix(<<"1", "2">>), UpgradeWord \o <<".", "1">>}
OriginalNames ==
    {name \in {Repeat("a", n) \o t : n \in RootLengths, t \in NameTails} :
        /\ Len(name) \in 1..DNS1123SubdomainMaxLength
        /\ name[1] # "."}

\* Upgrade ids: digit strings, among them one too long for any name.
LongUpgradeID == Repeat("1", DNS1123SubdomainMaxLength - Len(upgradeSuffix(<<>>)) + 1)
NameUpgradeIDs == {<<"1">>, <<"1", "2">>, LongUpgradeID}

InitNames ==
    /\ InitControlPlane
    /\ \E original \in OriginalNames :
         call = [fn |-> "generateReplacementMachineName",
                 names |-> <<original>>, ids |-> <<>>]

\* generateReplacementMachineName(name, id) on the name the last call returned.
\* A call that panicked returned nothing.
GenerateReplacementMachineName(id) ==
    /\ call.fn = "generateReplacementMachineName"
    /\ Len(call.ids) < MaxUpgrades
    /\ call.names[Len(call.names)] # Panic
    /\ call' = [call EXCEPT
                  !.ids = Append(@, id),
                  !.names = Append(@, generateReplacementMachineName(
                                         call.names[Len(call.names)], id))]
    /\ UNCHANGED <<cluster, upgrader, record>>

NextNames == \E id \in NameUpgradeIDs : GenerateReplacementMachineName(id)

SpecNames == InitNames /\ [][NextNames]_vars

\* --------------------------------------------- the constructor on its own

\* upgradeIDInputRegex.MatchString: one or more digits and nothing else.
upgradeIDInputRegex(s) == Len(s) > 0 /\ AllDigits(s)

\* semver.ParseTolerant on the version strings of ConfigVersions: a leading
\* "v" is dropped and a missing patch number is 0.
ParseTolerant(s) ==
    CASE s = "v1.17.0" -> [v |-> V117, err |-> FALSE]
      [] s = "1.16.3"  -> [v |-> V116, err |-> FALSE]
      [] s = "1.17"    -> [v |-> V117, err |-> FALSE]
      [] OTHER         -> [v |-> unsetVersion, err |-> TRUE]

\* fmt.Sprintf("%d", n)
RECURSIVE FormatInt(_)
FormatInt(n) ==
    IF n < 0 THEN <<"-">> \o FormatInt(-n)
    ELSE IF n < 10 THEN <<Alphabet[n + 2]>>
    ELSE FormatInt(n \div 10) \o <<Alphabet[(n % 10) + 2]>>

\* Config as it comes from the command line.
ConfigVersions == {"", "v1.17.0", "1.16.3", "1.17", "seventeen"}
ConfigUpgradeIDs == {<<>>, <<"1">>, <<"1", "5", "7", "3">>, <<"u">>, <<"1", "a">>, <<"a", "1">>, <<".", "1">>}
ConfigImages == {[ID |-> "", Field |-> ""], [ID |-> "ami-1", Field |-> "spec.ami"],
                 [ID |-> "ami-1", Field |-> ""], [ID |-> "", Field |-> "spec.ami"]}

\* time.Now().Unix()
UnixTimes == {7, 1573000000}

InitConstructor ==
    /\ InitControlPlane
    /\ \E version \in ConfigVersions, id \in ConfigUpgradeIDs, image \in ConfigImages :
         call = [fn |-> "NewControlPlaneUpgrader",
                 config |-> [KubernetesVersion |-> version, UpgradeID |-> id, Image |-> image],
                 returned |-> FALSE, err |-> ""]

\* NewControlPlaneUpgrader(log, config).  reachable: the management cluster
\* answers, holds the Cluster and its kubeconfig secret; now: the clock.
NewControlPlaneUpgrader(reachable, now) ==
    /\ call.fn = "NewControlPlaneUpgrader"
    /\ ~call.returned
    /\ LET config == call.config
           parsed == ParseTolerant(config.KubernetesVersion)
           fail(message) ==
               /\ call' = [call EXCEPT !.returned = TRUE, !.err = message]
               /\ UNCHANGED <<upgradeID, userVersion, desiredVersion>>
       IN  IF config.KubernetesVersion = ""
           THEN fail("kubernetes version is required")
           ELSE IF (config.Image.ID = "") # (config.Image.Field = "")
           THEN fail("when specifying image id, image field is required (and vice versa)")
           ELSE IF ~upgradeIDInputRegex(config.UpgradeID)
           THEN fail("upgrade ID must be a timestamp containing only digits")
           ELSE IF parsed.err
           THEN fail("error parsing kubernetes version")
           ELSE IF ~reachable
           THEN fail("management cluster")
           ELSE /\ call' = [call EXCEPT !.returned = TRUE]
                /\ userVersion' = parsed.v
                /\ desiredVersion' = parsed.v
                /\ upgradeID' = IF config.UpgradeID = <<>> THEN FormatInt(now)
                                ELSE config.UpgradeID
    /\ UNCHANGED <<cluster, record>>
    /\ UNCHANGED <<pc, err, mlist, i, providerIDsToNodes, oldNodeToEtcdMember,
                   secretsUpdated, newProviderID, matchingNode>>

NextConstructor ==
    \E reachable \in BOOLEAN, now \in UnixTimes : NewControlPlaneUpgrader(reachable, now)

SpecConstructor == InitConstructor /\ [][NextConstructor]_vars

\* ------------------------------- the kubeadm ConfigMap update on its own

\* A YAML scalar as it is written: plain or quoted.
Plain(text) == [quoted |-> FALSE, text |-> text]
Quoted(text) == [quoted |-> TRUE, text |-> text]

Value(type, val) == [type |-> type, val |-> val]

\* What a plain scalar is decoded to on the way yaml.Unmarshal takes,
\* YAML -> JSON -> interface{}: booleans in their YAML 1.1 spellings, null,
\* numbers as float64 (trailing zeros and digits past 2^53 are lost), a
\* nested mapping in flow or block style; anything else is a string.
resolve(text) ==
    CASE text \in {"true", "yes", "True"}     -> Value("bool", "true")
      [] text \in {"", "~", "null"}           -> Value("null", "null")
      [] text \in {"1.10", "1.1"}             -> Value("number", "1.1")
      [] text = "1.17"                        -> Value("number", "1.17")
      [] text \in {"9007199254740993", "9007199254740992"}
                                              -> Value("number", "9007199254740992")
      [] text \in {"{dnsDomain: cluster.local}", "\n  dnsDomain: cluster.local"}
                                              -> Value("mapping", "dnsDomain=cluster.local")
      [] OTHER                                -> Value("string", text)

decodeScalar(src) == IF src.quoted THEN Value("string", src.text) ELSE resolve(src.text)

\* What yaml.Marshal writes for a value: a string that would be read back as
\* something else is quoted, a mapping is written in block style.
encodeScalar(value) ==
    CASE value.type = "string" ->
             IF resolve(value.val).type # "string" THEN Quoted(value.val)
             ELSE Plain(value.val)
      [] value.type = "mapping" -> Plain("\n  dnsDomain: cluster.local")
      [] OTHER -> Plain(value.val)

\* The keys of ClusterConfiguration, in the order yaml.Marshal writes them.
ConfigKeys == <<"clusterName", "kubernetesVersion", "networking", "replicas">>

\* A YAML text: a mapping (its entries in the order they are written, with
\* or without comment lines), a sequence, or the empty text.
MappingText(entries, comments) == [kind |-> "mapping", entries |-> entries, comments |-> comments]
SequenceText == [kind |-> "sequence", entries |-> <<>>, comments |-> FALSE]
EmptyText == [kind |-> "empty", entries |-> <<>>, comments |-> FALSE]

\* yaml.Unmarshal(text, &clusterConfig) into the empty map the caller made:
\* for a mapping the last entry of a key wins, the empty text leaves the map
\* empty, a sequence is an error.
Unmarshal(text) ==
    IF text.kind = "sequence" THEN [err |-> TRUE, map |-> <<>>]
    ELSE LET keys == {text.entries[k].key : k \in 1..Len(text.entries)}
             last(key) == CHOOSE k \in 1..Len(text.entries) :
                             /\ text.entries[k].key = key
                             /\ \A j \in k + 1..Len(text.entries) : text.entries[j].key # key
         IN  [err |-> FALSE,
              map |-> [key \in keys |-> decodeScalar(text.entries[last(key)].src)]]

\* yaml.Marshal(clusterConfig): the keys in sorted order, no comments.
RECURSIVE marshalFrom(_, _)
marshalFrom(map, k) ==
    IF k > Len(ConfigKeys) THEN <<>>
    ELSE (IF ConfigKeys[k] \in DOMAIN map
          THEN <<[key |-> ConfigKeys[k], src |-> encodeScalar(map[ConfigKeys[k]])]>>
          ELSE <<>>) \o marshalFrom(map, k + 1)

Marshal(map) == MappingText(marshalFrom(map, 1), FALSE)

\* A variant of DeepCopy below that hands back the object itself.
sameObject(heap, ref) == [heap |-> heap, ref |-> ref]

\* original.DeepCopy(): a new object with the same content.  Objects live in
\* a heap, addressed by name.
DeepCopy(heap, ref) == [heap |-> heap @@ ("copy" :> heap[ref]), ref |-> "copy"]

NilRef == "nil"

\* cm.Data[entry]: the zero value, the empty string, when Data is nil or has
\* no such entry.
DataEntry(cm, entry) == IF entry \in DOMAIN cm.Data THEN cm.Data[entry] ELSE EmptyText

updateKubeadmKubernetesVersion(heap, original, version) ==
    LET copied == DeepCopy(heap, original)
        cm == copied.ref
        decoded == Unmarshal(DataEntry(copied.heap[cm], "ClusterConfiguration"))
        clusterConfig ==
            [key \in DOMAIN decoded.map \cup {"kubernetesVersion"} |->
                IF key = "kubernetesVersion" THEN Value("string", version)
                ELSE decoded.map[key]]
        updated == Marshal(clusterConfig)
    IN  IF decoded.err
        THEN [heap |-> copied.heap, cm |-> NilRef, err |-> TRUE, panic |-> FALSE]
        ELSE IF copied.heap[cm].nilData
        \* assignment to entry in nil map
        THEN [heap |-> copied.heap, cm |-> NilRef, err |-> FALSE, panic |-> TRUE]
        ELSE [heap |-> [copied.heap EXCEPT ![cm].Data =
                           [entry \in DOMAIN @ \cup {"ClusterConfiguration"} |->
                               IF entry = "ClusterConfiguration" THEN updated ELSE @[entry]]],
              cm |-> cm, err |-> FALSE, panic |-> FALSE]

\* The texts of ClusterConfiguration: kubernetesVersion first or absent,
\* other keys written in several ways, a key written twice, comments.
ScalarSources ==
    {Plain("v1.16.3"), Plain("1.10"), Quoted("1.10"), Plain("yes"), Quoted("true"),
     Plain("9007199254740993"), Plain("~"), Plain("{dnsDomain: cluster.local}")}
Entry(key, src) == [key |-> key, src |-> src]
ClusterConfigurations ==
    {MappingText(<<Entry("kubernetesVersion", Plain("v1.16.3")), Entry(key, src)>>, comments) :
        key \in {"clusterName", "networking", "replicas"}, src \in ScalarSources,
        comments \in BOOLEAN}
    \cup {MappingText(<<Entry("replicas", src), Entry("clusterName", Plain("c"))>>, FALSE) :
        src \in ScalarSources}
    \cup {MappingText(<<Entry("replicas", Plain("1.10")), Entry("replicas", Quoted("3"))>>, FALSE),
          MappingText(<<>>, FALSE), SequenceText, EmptyText}

ClusterStatus == MappingText(<<Entry("replicas", Plain("1.10"))>>, TRUE)

\* The kubeadm-config ConfigMap: with both entries, with ClusterConfiguration
\* alone, with ClusterStatus alone, without data.
ConfigMaps ==
    {[nilData |-> FALSE,
      Data |-> ("ClusterConfiguration" :> text) @@ ("ClusterStatus" :> ClusterStatus)] :
        text \in ClusterConfigurations}
    \cup {[nilData |-> FALSE, Data |-> ("ClusterConfiguration" :> text)] :
        text \in ClusterConfigurations}
    \cup {[nilData |-> FALSE, Data |-> ("ClusterStatus" :> ClusterStatus)],
          [nilData |-> TRUE, Data |-> <<>>]}

VersionStrings == {"v1.17.0", "1.17", "true", ""}

InitKubeadm ==
    /\ InitControlPlane
    /\ \E cm \in ConfigMaps, version \in VersionStrings :
         call = [fn |-> "updateKubeadmKubernetesVersion",
                 heap |-> ("original" :> cm), given |-> cm, version |-> version,
                 returned |-> FALSE, cm |-> NilRef, err |-> FALSE, panic |-> FALSE]

UpdateKubeadmKubernetesVersion ==
    /\ call.fn = "updateKubeadmKubernetesVersion"
    /\ ~call.returned
    /\ LET r == updateKubeadmKubernetesVersion(call.heap, "original", call.version)
       IN  call' = [call EXCEPT !.returned = TRUE, !.heap = r.heap, !.cm = r.cm,
                                !.err = r.err, !.panic = r.panic]
    /\ UNCHANGED <<cluster, upgrader, record>>

NextKubeadm == UpdateKubeadmKubernetesVersion

SpecKubeadm == InitKubeadm /\ [][NextKubeadm]_vars

\* ------------------------------------- the version arithmetic of Upgrade()

\* Machine.Spec.Version of the two machines, and --kubernetes-version ("0.0.0"
\* is taken as not given).
MachineVersions ==
    {NilSpecVersion, EmptySpecVersion, SpecVersion(V116), SpecVersion(V117),
     SpecVersion(Version(1, 17, 5))}
GatingInputVersions ==
    {unsetVersion, V117, Version(1, 17, 5), Version(2, 0, 0), Version(0, 1, 0),
     Version(0, 0, 5)}

InitGating ==
    /\ \E version0, version1 \in MachineVersions : InitControlPlaneAt(version0, version1)
    /\ call = NoCall

\* Upgrade() up to the etcd health check.
NextGating ==
    \/ \E id \in UpgradeIDs, version \in GatingInputVersions : StartUpgrade(id, version)
    \/ ListMachines
    \/ UpdateKubeletConfigMapIfNeeded
    \/ UpdateKubeletRbacIfNeeded

SpecGating == InitGating /\ [][NextGating]_vars

\* ------------------------------------------- the readiness check on its own

components == <<"etcd", "kube-apiserver", "kube-scheduler", "kube-controller-manager">>

requiredConditions == {"PodScheduled", "Initialized", "Ready", "ContainersReady"}

\* fmt.Sprintf("%s-%v", component, nodeHostname).  None of the four components
\* is another followed by "-", so the parts determine the name and the name
\* the parts.
podName(component, nodeHostname) == <<component, "-", nodeHostname>>

\* Pods("kube-system").Get(podName): the answer of the target cluster, which
\* is the pod, NotFound, or another error.
GetPod(pods, name) ==
    IF name \in DOMAIN pods THEN pods[name]
    ELSE [get |-> "NotFound", conditions |-> <<>>]

\* A variant of the set below with the types of the conditions of any status.
listedConditions(pod) ==
    {pod.conditions[k].type : k \in DOMAIN pod.conditions}

\* foundConditions: the types of the conditions whose status is "True".
foundConditions(pod) ==
    {pod.conditions[k].type :
        k \in {j \in DOMAIN pod.conditions : pod.conditions[j].status = "True"}}

\* The loop of isReady from the k-th component on: false at the first pod
\* that is not found, cannot be fetched, or misses a required condition.
RECURSIVE isReadyFrom(_, _, _)
isReadyFrom(pods, nodeHostname, k) ==
    IF k > Len(components) THEN TRUE
    ELSE LET pod == GetPod(pods, podName(components[k], nodeHostname))
         IN  IF pod.get = "NotFound" THEN FALSE
             ELSE IF pod.get # "ok" THEN FALSE
             ELSE IF requiredConditions \ foundConditions(pod) # {} THEN FALSE
             ELSE isReadyFrom(pods, nodeHostname, k + 1)

\* isReady(nodeHostname) against the pods of a target cluster.
isReadyOn(pods, nodeHostname) == isReadyFrom(pods, nodeHostname, 1)

\* pod.Status.Conditions with the four conditions True.
AllTrue ==
    <<[type |-> "PodScheduled", status |-> "True"],
      [type |-> "Initialized", status |-> "True"],
      [type |-> "Ready", status |-> "True"],
      [type |-> "ContainersReady", status |-> "True"]>>

\* The four conditions True; with another condition that is not True; with
\* one of them False or Unknown; with one of them not listed.
PodConditions ==
    {AllTrue, Append(AllTrue, [type |-> "Evicted", status |-> "False"])}
    \cup {[AllTrue EXCEPT ![k].status = status] :
             k \in 1..Len(AllTrue), status \in {"False", "Unknown"}}
    \cup {SubSeq(AllTrue, 1, k - 1) \o SubSeq(AllTrue, k + 1, Len(AllTrue)) :
             k \in 1..Len(AllTrue)}

\* What the target cluster has under a pod name.
PodAnswers ==
    {[get |-> "NotFound", conditions |-> <<>>], [get |-> "error", conditions |-> <<>>]}
    \cup {[get |-> "ok", conditions |-> conditions] : conditions \in PodConditions}

\* The pods of the components of the host, and those of every other host
\* with the four conditions True.
PodsOf(nodeHostname, answers) ==
    [name \in {podName(components[k], h) : k \in 1..Len(components), h \in {"h0", "h1"}} |->
        IF name[3] = nodeHostname
        THEN answers[CHOOSE k \in 1..Len(components) : components[k] = name[1]]
        ELSE [get |-> "ok", conditions |-> AllTrue]]

InitReady ==
    /\ InitControlPlane
    /\ \E nodeHostname \in {"h0", "h1"}, answers \in [1..Len(components) -> PodAnswers] :
         call = [fn |-> "isReady", nodeHostname |-> nodeHostname,
                 pods |-> PodsOf(nodeHostname, answers), returned |-> "not yet"]

\* One call of isReady.
IsReady ==
    /\ call.fn = "isReady"
    /\ call.returned = "not yet"
    /\ call' = [call EXCEPT
                  !.returned = IF isReadyOn(call.pods, call.nodeHostname)
                               THEN "true" ELSE "false"]
    /\ UNCHANGED <<cluster, upgrader, record>>

SpecReady == InitReady /\ [][IsReady]_vars

\* ------------------------------------------------------ the waits on their own

\* 15*time.Minute, and the intervals of wait.PollImmediate, in seconds.
waitTimeout == 15 * 60

pollInterval(fn) == IF fn = "waitForNodeReady" THEN 15 ELSE 5

\* A provider id is written as its parts between the separators: the cloud
\* provider before "://" comes first and the instance id after the last "/"
\* comes last; "" has no part.
\* noderefutil.NewProviderID: an id without the two of them is an error.
NewProviderID(id) ==
    IF Len(id) < 2 \/ id[1] = "" \/ id[Len(id)] = ""
    THEN [err |-> TRUE, cloudProvider |-> "", id |-> ""]
    ELSE [err |-> FALSE, cloudProvider |-> id[1], id |-> id[Len(id)]]

\* ProviderID.Equals: the same cloud provider and the same instance id.
Equals(p, o) == p.cloudProvider = o.cloudProvider /\ p.id = o.id

\* A variant of the result below that hands the error of the Get to the poll.
getErrorReturned == [done |-> FALSE, err |-> TRUE, value |-> <<>>]

\* "return false, nil" of a probe whose Get or List failed.
getErrorLogged == [done |-> FALSE, err |-> FALSE, value |-> <<>>]

NotYet == [done |-> FALSE, err |-> FALSE, value |-> <<>>]

Done(value) == [done |-> TRUE, err |-> FALSE, value |-> value]

\* The probe of waitForProviderID on the Machine that the Get returns.
probeProviderID(machine, getFails) ==
    IF getFails THEN getErrorLogged
    ELSE IF machine.nil THEN NotYet
    ELSE IF machine.value # <<>> THEN Done(machine.value)
    ELSE NotYet

\* The probes of waitForMatchingNode on the Nodes that the List returns: the
\* Nodes whose provider id parses and equals the one waited for.  The probe is
\* done with the first of them in the list.
probeMatchingNode(items, listFails, providerID) ==
    IF listFails THEN {getErrorLogged}
    ELSE LET matching ==
                 {node \in items :
                     /\ ~NewProviderID(node.providerID).err
                     /\ Equals(providerID, NewProviderID(node.providerID))}
         IN  IF matching = {} THEN {NotYet} ELSE {Done(node) : node \in matching}

\* hostnameForNode: the first address of type Hostname, or "".
hostnameForNode(node) ==
    LET hostnames == {k \in DOMAIN node.addresses : node.addresses[k].type = "Hostname"}
    IN  IF hostnames = {} THEN ""
        ELSE node.addresses[CHOOSE k \in hostnames : \A j \in hostnames : k <= j].address

\* The values of a wait that is called.
Called(fn, arg, world) ==
    [fn |-> fn, arg |-> arg, world |-> world, phase |-> "called", elapsed |-> 0,
     probe |-> "none", failed |-> FALSE, value |-> <<>>, err |-> ""]

\* One round of wait.PollImmediate with the result of its probe: an error of
\* the probe and a probe that is done end the poll; a probe that is not done
\* is repeated after the interval, and after the last one, when the timeout
\* has passed, the poll returns ErrWaitTimeout, which the wait wraps.
PollImmediate(result, failed, timedOut) ==
    call' =
        IF result.err
        THEN [call EXCEPT !.phase = "returned", !.probe = "failed", !.failed = TRUE,
                          !.err = "error of the probe"]
        ELSE IF result.done
        THEN [call EXCEPT !.phase = "returned", !.probe = "done", !.value = result.value]
        ELSE LET probed == [call EXCEPT !.probe = IF failed THEN "failed" ELSE "not yet",
                                        !.failed = @ \/ failed]
             IN  IF call.elapsed >= waitTimeout
                 THEN [probed EXCEPT !.phase = "returned", !.err = timedOut]
                 ELSE [probed EXCEPT !.elapsed = @ + pollInterval(call.fn)]

awsProviderID == <<"aws", "zone-a", "i-1">>

\* A Node of the target cluster.
Node(name, providerID, addresses) ==
    [name |-> name, providerID |-> providerID, addresses |-> addresses]

\* Nodes of the target cluster: of the instance, of the instance under another
\* zone, of another instance, of the instance of another cloud provider, and
\* one whose provider id does not parse.
JoiningNodes ==
    {Node("node-a", awsProviderID, <<>>),
     Node("node-b", <<"aws", "zone-b", "i-1">>, <<>>),
     Node("node-c", <<"aws", "zone-a", "i-2">>, <<>>),
     Node("node-d", <<"gce", "zone-a", "i-1">>, <<>>),
     Node("node-e", <<"i-1">>, <<>>)}

\* The Nodes given to waitForNodeReady: with a hostname after another
\* address, and without one.
ReadyWaitNodes ==
    {Node("node-a", awsProviderID,
          <<[type |-> "InternalIP", address |-> "10.0.0.1"],
            [type |-> "Hostname", address |-> "h0"]>>),
     Node("node-b", awsProviderID, <<[type |-> "InternalIP", address |-> "10.0.0.2"]>>)}

\* The pods of the host of the new node: all there and ready, the etcd pod
\* missing, the Get of the kube-apiserver pod failing, the kube-scheduler pod
\* not Ready.
JoiningPods ==
    LET ready == [get |-> "ok", conditions |-> AllTrue]
        all == [k \in 1..Len(components) |-> ready]
    IN  {PodsOf("h0", all),
         PodsOf("h0", [all EXCEPT ![1] = [get |-> "NotFound", conditions |-> <<>>]]),
         PodsOf("h0", [all EXCEPT ![2] = [get |-> "error", conditions |-> <<>>]]),
         PodsOf("h0", [all EXCEPT ![3] =
                          [get |-> "ok",
                           conditions |-> [AllTrue EXCEPT ![3].status = "False"]]])}

InitWaits ==
    /\ InitControlPlane
    \* Machine.Spec.ProviderID is nil or ""; the provider id given to
    \* waitForMatchingNode parses, is "", or has no cloud provider
    /\ \/ \E machine \in {[nil |-> TRUE, value |-> <<>>], [nil |-> FALSE, value |-> <<>>]} :
            call = Called("waitForProviderID", <<>>, machine)
       \/ \E rawProviderID \in {awsProviderID, <<>>, <<"i-1">>},
             items \in SUBSET JoiningNodes :
            /\ Cardinality(items) <= 1
            /\ call = Called("waitForMatchingNode", rawProviderID, items)
       \/ \E newNode \in ReadyWaitNodes, pods \in JoiningPods :
            /\ ~isReadyOn(pods, "h0")
            /\ call = Called("waitForNodeReady", newNode, pods)

\* The wait is entered: waitForMatchingNode returns the error of a provider id
\* that does not parse, waitForNodeReady that of a node without hostname.
EnterWait ==
    /\ call.phase = "called"
    /\ LET cause ==
               CASE call.fn = "waitForProviderID" -> ""
                 [] call.fn = "waitForMatchingNode" ->
                      IF NewProviderID(call.arg).err THEN "invalid provider id" ELSE ""
                 [] call.fn = "waitForNodeReady" ->
                      IF hostnameForNode(call.arg) = ""
                      THEN "unable to find hostname for node" ELSE ""
       IN  call' = IF cause # "" THEN [call EXCEPT !.phase = "returned", !.err = cause]
                   ELSE [call EXCEPT !.phase = "polling"]
    /\ UNCHANGED <<cluster, upgrader, record>>

PollProviderID(getFails) ==
    /\ call.fn = "waitForProviderID"
    /\ call.phase = "polling"
    /\ PollImmediate(probeProviderID(call.world, getFails), getFails,
                     "timed out waiting for machine provider id")
    /\ UNCHANGED <<cluster, upgrader, record>>

PollMatchingNode(listFails) ==
    /\ call.fn = "waitForMatchingNode"
    /\ call.phase = "polling"
    /\ \E result \in probeMatchingNode(call.world, listFails, NewProviderID(call.arg)) :
          PollImmediate(result, listFails, "timed out waiting for matching node")
    /\ UNCHANGED <<cluster, upgrader, record>>

PollNodeReady ==
    /\ call.fn = "waitForNodeReady"
    /\ call.phase = "polling"
    /\ PollImmediate(IF isReadyOn(call.world, hostnameForNode(call.arg))
                     THEN Done(<<>>) ELSE NotYet,
                     FALSE, "components on node are not ready")
    /\ UNCHANGED <<cluster, upgrader, record>>

\* The infrastructure provider sets the provider id of the Machine.
ProviderIDPopulated ==
    /\ call.fn = "waitForProviderID"
    /\ call.phase # "returned"
    /\ call.world.nil \/ call.world.value = <<>>
    /\ call' = [call EXCEPT !.world = [nil |-> FALSE, value |-> awsProviderID]]
    /\ UNCHANGED <<cluster, upgrader, record>>

\* A Node registers with the target cluster.
NodeRegisters(node) ==
    /\ call.fn = "waitForMatchingNode"
    /\ call.phase # "returned"
    /\ node \notin call.world
    /\ call' = [call EXCEPT !.world = @ \cup {node}]
    /\ UNCHANGED <<cluster, upgrader, record>>

\* The pods of the host come, go and change their conditions.
PodsChange(pods) ==
    /\ call.fn = "waitForNodeReady"
    /\ call.phase # "returned"
    /\ pods # call.world
    /\ call' = [call EXCEPT !.world = pods]
    /\ UNCHANGED <<cluster, upgrader, record>>

\* The steps of the wait itself.
Waits ==
    \/ EnterWait
    \/ \E getFails \in BOOLEAN : PollProviderID(getFails)
    \/ \E listFails \in BOOLEAN : PollMatchingNode(listFails)
    \/ PollNodeReady

NextWaits ==
    \/ Waits
    \/ ProviderIDPopulated
    \/ \E node \in JoiningNodes : NodeRegisters(node)
    \/ \E pods \in JoiningPods : PodsChange(pods)

\* The wait blocks its caller and runs on; the other controllers take their
\* steps when they do.
SpecWaits == InitWaits /\ [][NextWaits]_vars /\ WF_vars(Waits)

\* ------------------------------- the replacement KubeadmConfig on its own

\* kubeadmv1beta1.NodeRegistrationOptions{}.
NoNodeRegistration == [name |-> "", criSocket |-> ""]

\* Spec.InitConfiguration: nil (else it has a node registration).
NilInitConfiguration == [nil |-> TRUE, nodeRegistration |-> NoNodeRegistration]

\* Spec.JoinConfiguration: nil, or with a node registration, a discovery and
\* the ControlPlane of the joining node.
NilJoinConfiguration ==
    [nil |-> TRUE, nodeRegistration |-> NoNodeRegistration, discovery |-> "",
     controlPlane |-> "nil"]

JoinConfiguration(nodeRegistration, discovery, controlPlane) ==
    [nil |-> FALSE, nodeRegistration |-> nodeRegistration, discovery |-> discovery,
     controlPlane |-> controlPlane]

\* &kubeadmv1beta1.JoinConfiguration{ControlPlane: &kubeadmv1beta1.JoinControlPlane{}}.
NewJoinConfiguration == JoinConfiguration(NoNodeRegistration, "", "JoinControlPlane{}")

\* A variant of the choice below that prefers the registration of the
\* JoinConfiguration.
nodeRegistrationJoinFirst(bootstrap) ==
    IF ~bootstrap.spec.joinConfiguration.nil
    THEN bootstrap.spec.joinConfiguration.nodeRegistration
    ELSE IF ~bootstrap.spec.initConfiguration.nil
    THEN bootstrap.spec.initConfiguration.nodeRegistration
    ELSE NoNodeRegistration

\* "find node registration": that of the InitConfiguration if there is one,
\* else that of the JoinConfiguration if there is one, else an empty one.
nodeRegistrationOf(bootstrap) ==
    IF ~bootstrap.spec.initConfiguration.nil
    THEN bootstrap.spec.initConfiguration.nodeRegistration
    ELSE IF ~bootstrap.spec.joinConfiguration.nil
    THEN bootstrap.spec.joinConfiguration.nodeRegistration
    ELSE NoNodeRegistration

\* The KubeadmConfig that updateBootstrapConfig creates from the one it got.
modifiedBootstrap(bootstrap, replacementName) ==
    LET renamed == [bootstrap EXCEPT !.name = replacementName,
                                     !.resourceVersion = "",
                                     !.ownerReferences = <<>>]
        nodeRegistration == nodeRegistrationOf(renamed)
        joinConfiguration ==
            IF renamed.spec.joinConfiguration.nil THEN NewJoinConfiguration
            ELSE renamed.spec.joinConfiguration
    IN  [renamed EXCEPT
           !.spec.joinConfiguration =
               [joinConfiguration EXCEPT !.nodeRegistration = nodeRegistration],
           !.spec.initConfiguration = NilInitConfiguration]

\* The KubeadmConfigs of the machines that are replaced: of a machine that
\* initialized the cluster or joined it, with both configurations or neither,
\* as the management cluster has them.
KubeadmConfigs ==
    LET nodeRegistrations ==
            {[name |-> "cp-init", criSocket |-> "/var/run/containerd.sock"],
             [name |-> "cp-join", criSocket |-> ""]}
    IN  [name : {"cp-0"},
         resourceVersion : {"", "4711"},
         uid : {"uid-cp-0"},
         ownerReferences : {<<>>, <<"Machine/cp-0">>},
         spec : [initConfiguration :
                     {NilInitConfiguration}
                     \cup {[nil |-> FALSE, nodeRegistration |-> r] :
                              r \in nodeRegistrations \cup {NoNodeRegistration}},
                 joinConfiguration :
                     {NilJoinConfiguration}
                     \cup {JoinConfiguration(r, "token", controlPlane) :
                              r \in nodeRegistrations,
                              controlPlane \in {"nil", "JoinControlPlane{}"}}]]

InitBootstrap ==
    /\ InitControlPlane
    /\ \E bootstrap \in KubeadmConfigs,
          replacementName \in {"cp-0.upgrade.1", "cp-0.upgrade.2"} :
         call = [fn |-> "updateBootstrapConfig", source |-> bootstrap,
                 replacementName |-> replacementName, created |-> [name |-> ""]]

\* updateBootstrapConfig from the Get of the source to the Create.
CreateBootstrap ==
    /\ call.fn = "updateBootstrapConfig"
    /\ call.created = [name |-> ""]
    /\ call' = [call EXCEPT !.created = modifiedBootstrap(call.source, call.replacementName)]
    /\ UNCHANGED <<cluster, upgrader, record>>

SpecBootstrap == InitBootstrap /\ [][CreateBootstrap]_vars

\* ------------------------------------------------------------- properties

Running == pc \notin {"idle", "done"}

\* The listed machine that the Machine named r replaces under the run's id.
Originals(r) ==
    {o \in DOMAIN machines :
        o # r /\ generateReplacementMachineName(o, upgradeID) = r}

\* C1: quorum preservation.  Every step of a run that removes an etcd member
\* is the member removal of the iteration in progress, and the readiness wait
\* of this very run has seen the node of the replacement of that iteration
\* ready before.
C1_QuorumPreservation ==
    [][(\E h \in etcdMembers : h \notin etcdMembers') =>
          /\ pc = "removeMember"
          /\ replacementMachineName \in DOMAIN machines
          /\ machines[replacementMachineName].providerID = matchingNode
          /\ matchingNode \in readySeen]_vars

\* A run has removed the member of an old machine after it saw the
\* replacement's node ready, and is about to delete the old machine.
C1_Witness ==
    /\ pc = "deleteMachine"
    /\ "etcd member" \in wrote
    /\ oldHostName \notin etcdMembers
    /\ matchingNode \in readySeen

\* The Machines, objects, versions, etcd members, kubeadm version and secret
\* owners that one run with SameInputs leaves when nothing fails: both machines
\* replaced, and the secrets owned by the KubeadmConfig of the first replacement.
CrashFreeTerminalState ==
    LET r0 == generateReplacementMachineName(c0, SameInputs.id)
        r1 == generateReplacementMachineName(c1, SameInputs.id)
        retiring == DOMAIN machines \ LiveMachines
    IN  /\ LiveMachines = {r0, r1}
        /\ \A r \in LiveMachines :
              /\ machines[r].version = SpecVersion(SameInputs.version)
              /\ machines[r].annot = NoAnnotation
        /\ infras \ retiring = {r0, r1}
        /\ DOMAIN bootstraps \ retiring = {r0, r1}
        /\ \A r \in {r0, r1} : bootstraps[r] = [init |-> Nil, join |-> bootstraps[r].join]
        /\ etcdMembers = {r0, r1}
        /\ kubeadm = SameInputs.version
        /\ \A k \in 1..Len(secretNames) : secrets[k] = r0

\* C2: crash-resume convergence.  Whenever a run with the same upgrade id and
\* the same inputs as every run before it returns success, the cluster is in
\* the state a single run without a crash leaves.
C2_CrashResumeConvergence ==
    (pc = "done" /\ err = "") => CrashFreeTerminalState

\* The replacements this run created whose original has not had its delete
\* issued.
InFlight ==
    {r \in created : \E o \in Originals(r) : ~machines[o].deleting}

\* C3: serial replacement.  At every point of a run at most one replacement
\* Machine created by the run has an original whose delete is not issued yet;
\* and while the replacement objects of a machine are made there is none, and
\* every machine the loop has selected before has had its delete issued.
C3_SerialReplacement ==
    Running =>
        /\ Cardinality(InFlight) <= 1
        /\ pc \in {"infra", "bootstrap", "secrets", "machine"} =>
              /\ InFlight = {}
              /\ \A k \in 1..(i - 1) :
                    (\A s \in skipped : s.name # mlist[k].name) =>
                        machines[mlist[k].name].deleting

\* The run has replaced one machine and waits on the replacement of the next.
C3_Witness ==
    /\ Running
    /\ Cardinality(created) = 2
    /\ Cardinality(InFlight) = 1

\* C4: availability floor, as stated.  If every control-plane Machine was
\* ready when the run started, then at every point of the run the Machines
\* whose node passes the readiness check are at least that many less one.
C4_AvailabilityFloor ==
    Running => Cardinality(ReadyMachines) >= startReady - 1

\* C4: availability floor, with the replacements that an earlier run left.
\* If every control-plane Machine was ready when the run started, then at
\* every point of the run the Machines whose node passes the readiness check
\* are at least that many, less one, less the machines whose replacement
\* Machine existed already when the run started.
C4_AvailabilityFloorOfResumedRun ==
    Running => Cardinality(ReadyMachines) >= startReady - 1 - startReplaced

\* A run that started with every machine ready, replacements left by an
\* earlier run among them, has removed etcd members of old machines and has
\* fewer ready machines than it started with less one.
C4_Witness ==
    /\ Running
    /\ startReady > 0
    /\ startReplaced > 0
    /\ "etcd member" \in wrote
    /\ Cardinality(ReadyMachines) < startReady - 1

\* The positions of a run inside the iteration of a selected machine.
Processing == {MachineSteps[k] : k \in 1..Len(MachineSteps)} \cup {"secrets"}

\* The listed machines annotated by another upgrade.
Mismatched ==
    {k \in 1..Len(mlist) : mlist[k].annot \notin {NoAnnotation, upgradeID}}

C6_ClearedOnlyAtSuccess ==
    (pc = "done" /\ err \notin {"", "crash"}) => "annotation removed" \notin wrote

\* C7: finalization scope.  The last loop looks up the replacement of no
\* machine that the loop of updateMachines skipped for its missing provider
\* id, its mismatching upgrade id or the failed patch of its annotation, and a
\* run that skipped a machine does not return the error of that lookup.
C7_FinalizationScope ==
    LET bypassed == {s \in skipped : s.reason \in {"no providerID", "patch failed",
                                                   "mismatching upgrade id"}}
    IN  /\ \A s \in bypassed : s.name \notin lookedUp
        /\ (pc = "done" /\ bypassed # {}) => err # "error getting machine"

\* C8: version floor.  While a run waits on a replacement Machine, created by
\* it or found by the exists probe, the Machine's spec.version is the desired
\* version of the run.
C8_VersionFloor ==
    (pc \in {"waitProviderID", "waitNode", "waitReady"}
       /\ replacementMachineName \in DOMAIN machines) =>
        machines[replacementMachineName].version = SpecVersion(desiredVersion)

\* C9: a failed etcd health check ends the run before it has written to the
\* management cluster, removed an etcd member or updated the kubeadm ConfigMap.
C9_UnhealthyEtcdAborts ==
    (pc = "done" /\ err = "etcd unhealthy") =>
        wrote \cap {"management", "etcd member", "kubeadm", "annotation removed"} = {}

\* The health check failed in a run that had to create the kubelet resources
\* of the new minor version first.
C9_Witness ==
    /\ pc = "done"
    /\ err = "etcd unhealthy"
    /\ "kubelet" \in wrote

\* The events of an iteration in the order they have to occur.
EventOrder == <<"infra", "bootstrap", "machine", "providerID", "node", "ready",
                "remove", "delete">>

IsPrefix(s, t) == Len(s) <= Len(t) /\ SubSeq(t, 1, Len(s)) = s

\* C10: per-machine ordering.  What has happened for the machine in progress
\* is an initial part of: infrastructure object, KubeadmConfig, Machine,
\* provider id, node, node ready, member removal (if any), deletion.
C10_PerMachineOrdering ==
    \/ IsPrefix(events, EventOrder)
    \/ IsPrefix(events, SelectSeq(EventOrder, LAMBDA e : e # "remove"))

\* An iteration went through all the events, the member removal included.
C10_Witness == events = EventOrder

\* Both machines are replaced: the replacements exist under the names
\* <original>.upgrade.<id> without the annotation, the originals have their
\* delete issued and their etcd members are removed.
RollingReplaceDone ==
    /\ \A o \in {c0, c1} :
          /\ o \in DOMAIN machines => machines[o].deleting
          /\ o \notin etcdMembers
          /\ LET r == o \o upgradeSuffix(CHOOSE id \in UpgradeIDs : TRUE)
             IN  /\ r \in LiveMachines
                 /\ machines[r].annot = NoAnnotation
    /\ Cardinality(LiveMachines) = 2

\* C11: the rolling replace terminates.  A run that starts on the two
\* machines, neither annotated, both with provider ids, eventually returns
\* nil with both replaced, when every call succeeds and the infrastructure
\* brings each replacement up.
C11_RollingReplaceTerminates ==
    (/\ pc = "listMachines"
     /\ LiveMachines = {c0, c1}
     /\ \A o \in LiveMachines :
           machines[o].annot = NoAnnotation /\ machines[o].providerID # NoProviderID)
    ~> (pc = "done" /\ err = "" /\ RollingReplaceDone)

\* A run has returned nil with both machines replaced.
C11_Witness ==
    /\ pc = "done"
    /\ err = ""
    /\ RollingReplaceDone
    /\ kubeadm = V117

NamesCalled == call.fn = "generateReplacementMachineName"

\* C12: naming is idempotent.  Giving the name that
\* generateReplacementMachineName returned for an upgrade id back to it with
\* the same id returns that name again.
C12_NamingIdempotent ==
    NamesCalled =>
        \A k \in 1..Len(call.ids) - 1 :
            call.ids[k] = call.ids[k + 1] => call.names[k + 2] = call.names[k + 1]

\* A name of the greatest length that carries the tail of an earlier upgrade
\* was truncated for a longer id, and the result was given back with that id.
C12_Witness ==
    /\ NamesCalled
    /\ call.ids = <<<<"1", "2">>, <<"1", "2">>>>
    /\ Len(call.names[1]) = DNS1123SubdomainMaxLength
    /\ upgradeIDNameSuffixRegex(call.names[1]) # 0
    /\ Len(call.names[2]) = DNS1123SubdomainMaxLength
    /\ call.names[3] = call.names[2]

\* C13: every call of generateReplacementMachineName returns a name, of at
\* most 253 characters.
C13_NameLengthBound ==
    NamesCalled =>
        \A k \in 2..Len(call.names) :
            /\ call.names[k] # Panic
            /\ Len(call.names[k]) <= DNS1123SubdomainMaxLength

\* C14: the replacement name of a replacement name is the replacement name
\* of the original, whatever the two upgrade ids.
C14_ReplacementOfReplacement ==
    NamesCalled =>
        \A k \in 1..Len(call.ids) - 1 :
            call.names[k + 2] = generateReplacementMachineName(call.names[k], call.ids[k + 1])

\* C14, for a second upgrade id that is at least as long as the first: the
\* replacement name of a replacement name is the replacement name of the
\* original, and where the first call panics the call on the original
\* with the second id panics too.
C14_ReplacementOfReplacementNoShorterID ==
    NamesCalled =>
        /\ \A k \in 1..Len(call.ids) - 1 :
              Len(call.ids[k + 1]) >= Len(call.ids[k]) =>
                  call.names[k + 2] =
                      generateReplacementMachineName(call.names[k], call.ids[k + 1])
        /\ \A k \in 1..Len(call.ids) :
              call.names[k + 1] = Panic =>
                  \A id \in NameUpgradeIDs :
                      Len(id) >= Len(call.ids[k]) =>
                          generateReplacementMachineName(call.names[k], id) = Panic

\* A name one short of the greatest length is truncated for one id, and the
\* result is given back with a longer id and truncated again.
C14_Witness ==
    /\ NamesCalled
    /\ call.ids = <<<<"1">>, <<"1", "2">>>>
    /\ Len(call.names[1]) = DNS1123SubdomainMaxLength - 1
    /\ Len(call.names[2]) = DNS1123SubdomainMaxLength
    /\ call.names[3] # Panic
    /\ Len(call.names[3]) = DNS1123SubdomainMaxLength

Constructing == call.fn = "NewControlPlaneUpgrader"

Constructed == Constructing /\ call.returned /\ call.err = ""

\* What stops the constructor apart from the upgrade id: the version, the
\* image arguments, the management cluster.
OtherwiseConstructible ==
    /\ ~ParseTolerant(call.config.KubernetesVersion).err
    /\ (call.config.Image.ID = "") = (call.config.Image.Field = "")
    /\ call.err # "management cluster"

\* C15: an empty upgrade id is accepted and becomes the Unix time in decimal
\* digits; a non-empty upgrade id with a character that is no digit is
\* refused; every constructed upgrader has a non-empty upgrade id of digits.
C15_UpgradeIDInput ==
    (Constructing /\ call.returned) =>
        /\ (call.config.UpgradeID = <<>> /\ OtherwiseConstructible) =>
              /\ call.err = ""
              /\ \E now \in UnixTimes : upgradeID = FormatInt(now)
        /\ (call.config.UpgradeID # <<>> /\ ~AllDigits(call.config.UpgradeID)) =>
              call.err # ""
        /\ call.err = "" => upgradeID # <<>> /\ AllDigits(upgradeID)

KubeadmReturned == call.fn = "updateKubeadmKubernetesVersion" /\ call.returned

\* The ClusterConfiguration of the ConfigMap that was given is there and
\* decodes to a mapping.
DecodesToMapping ==
    /\ "ClusterConfiguration" \in DOMAIN call.given.Data
    /\ call.given.Data["ClusterConfiguration"].kind = "mapping"

\* C16: for a ConfigMap whose ClusterConfiguration decodes to a mapping,
\* updateKubeadmKubernetesVersion returns a ConfigMap whose decoded
\* ClusterConfiguration has kubernetesVersion equal to the version given and
\* every other key with the value it decoded to before, whose other data
\* entries are as they were; the ConfigMap that was given is not changed.
C16_KubeadmConfigUpdateLaw ==
    (KubeadmReturned /\ DecodesToMapping) =>
        /\ ~call.err /\ ~call.panic
        /\ LET before == Unmarshal(call.given.Data["ClusterConfiguration"]).map
               result == call.heap[call.cm]
               after == Unmarshal(result.Data["ClusterConfiguration"])
           IN  /\ ~after.err
               /\ after.map["kubernetesVersion"] = Value("string", call.version)
               /\ DOMAIN after.map = DOMAIN before \cup {"kubernetesVersion"}
               /\ \A key \in DOMAIN before \ {"kubernetesVersion"} :
                     after.map[key] = before[key]
               /\ DOMAIN result.Data = DOMAIN call.given.Data
               /\ \A entry \in DOMAIN result.Data \ {"ClusterConfiguration"} :
                     result.Data[entry] = call.given.Data[entry]
        /\ call.heap["original"] = call.given

\* A ClusterConfiguration with comments and a number written with a trailing
\* zero, next to another entry, was updated to a version that reads as a
\* number when written plain.
C16_Witness ==
    /\ KubeadmReturned
    /\ DecodesToMapping
    /\ call.given.Data["ClusterConfiguration"].comments
    /\ \E k \in 1..Len(call.given.Data["ClusterConfiguration"].entries) :
          call.given.Data["ClusterConfiguration"].entries[k].src = Plain("1.10")
    /\ "ClusterStatus" \in DOMAIN call.given.Data
    /\ call.version = "1.17"
    /\ call.cm # NilRef
    /\ call.heap[call.cm].Data["ClusterConfiguration"] # call.given.Data["ClusterConfiguration"]

\* The listed machines whose name ends with the suffix of the run's upgrade id.
ListedReplacements ==
    {k \in 1..Len(mlist) : HasSuffix(mlist[k].name, upgradeSuffix(upgradeID))}

\* C17: the replacement filter.  A listed machine whose name ends with
\* .upgrade.<id> for the id of the run is never the machine of an iteration
\* that makes replacement objects; once the loop is past it, it is among the
\* skipped; no step of the run issues its delete or removes the etcd member
\* of its node.
C17_ReplacementFilter ==
    [][Running =>
         \A k \in ListedReplacements :
            LET name == mlist[k].name
            IN  /\ ~(pc' \in Processing /\ i' = k)
                /\ (k \in 1..Len(mlist') /\ pc' \in Processing \cup {"loop"} /\ i' > k) =>
                       \E s \in skipped' : s.name = name
                /\ name \in DOMAIN machines =>
                       /\ name \in DOMAIN machines'
                       /\ machines'[name].deleting = machines[name].deleting
                       /\ machines[name].providerID \in etcdMembers =>
                              machines[name].providerID \in etcdMembers'
      ]_vars

\* The replacement of c0 was listed and skipped as a replacement, and the run
\* is replacing c1.
C17_Witness ==
    /\ pc \in Processing
    /\ mlist[i].name = c1
    /\ \E k \in ListedReplacements :
          /\ k < i
          /\ [name |-> mlist[k].name, reason |-> "replacement"] \in skipped
          /\ mlist[k].name \in LiveMachines
          /\ mlist[k].providerID \in etcdMembers

\* C18: abort on timeout.  A wait that times out ends the run with the error:
\* the step changes nothing in the clusters, the run has neither removed the
\* etcd member of the machine in progress nor issued its delete, has made no
\* replacement of a later machine and has fetched no replacement to remove
\* its annotation, and the replacement objects made so far are there.  Until
\* another run starts, no machine is annotated, created or has its delete
\* issued, no etcd member is removed and the kubeadm version stays.
C18_AbortOnTimeout ==
    [][/\ (Running /\ err' = "timed out") =>
            /\ pc \in {"waitProviderID", "waitNode", "waitReady"}
            /\ pc' = "done"
            /\ UNCHANGED cluster
            /\ "remove" \notin {events[k] : k \in 1..Len(events)}
            /\ "delete" \notin {events[k] : k \in 1..Len(events)}
            /\ ~machines'[mlist[i].name].deleting
            /\ \A k \in i + 1..Len(mlist) :
                  generateReplacementMachineName(mlist[k].name, upgradeID) \notin created
            /\ lookedUp' = {}
            /\ created \subseteq DOMAIN machines'
            /\ replacementMachineName \in DOMAIN machines'
            /\ replacementMachineName \in infras'
            /\ replacementMachineName \in DOMAIN bootstraps'
       /\ (pc = "done" /\ err = "timed out" /\ pc' = "done") =>
            /\ DOMAIN machines' \subseteq DOMAIN machines
            /\ \A n \in DOMAIN machines' :
                  /\ machines'[n].annot = machines[n].annot
                  /\ machines'[n].deleting = machines[n].deleting
            /\ etcdMembers \subseteq etcdMembers'
            /\ infras' \subseteq infras
            /\ kubeadm' = kubeadm
      ]_vars

\* The wait for the replacement of c0 timed out in a run that had replaced
\* nothing: c0 and its etcd member are there next to the replacement, c1 has
\* no replacement.
C18_Witness ==
    /\ pc = "done"
    /\ err = "timed out"
    /\ {c0, c1} \subseteq LiveMachines
    /\ c0 \in etcdMembers
    /\ \E id \in UpgradeIDs :
          LET r == generateReplacementMachineName(c0, id)
          IN  /\ r \in LiveMachines
              /\ r \in infras
              /\ r \in DOMAIN bootstraps
    /\ Cardinality(DOMAIN machines) = 3

\* The step is the run's member removal for the machine in progress, it is
\* due (the members saved before the loop have one of the old hostname), and
\* it does not remove the member.
MemberRemovalFails ==
    /\ pc = "removeMember"
    /\ pc' # pc
    /\ err' # "crash"
    /\ oldHostName \in oldNodeToEtcdMember
    /\ ~(oldHostName \in etcdMembers /\ oldHostName \notin etcdMembers')

\* C19: failure to remove an etcd member is fatal.  When the member removal
\* of the machine in progress fails, the run ends with the error, the step
\* changes nothing in the clusters, the delete of the old Machine is not
\* issued, and no replacement of a later machine was or is made by the run;
\* until another run starts no machine has its delete issued and none is
\* created.
C19_MemberRemovalFailureIsFatal ==
    [][/\ MemberRemovalFails =>
            /\ pc' = "done"
            /\ err' = "unable to delete old etcd member"
            /\ UNCHANGED cluster
            /\ ~machines'[mlist[i].name].deleting
            /\ "delete" \notin {events[k] : k \in 1..Len(events)}
            /\ \A k \in i + 1..Len(mlist) :
                  generateReplacementMachineName(mlist[k].name, upgradeID) \notin created
       /\ (pc = "done" /\ err = "unable to delete old etcd member" /\ pc' = "done") =>
            /\ DOMAIN machines' \subseteq DOMAIN machines
            /\ \A n \in DOMAIN machines' : machines'[n].deleting = machines[n].deleting
            /\ DOMAIN bootstraps' \subseteq DOMAIN bootstraps
      ]_vars

\* The member removal for c0 failed in a run that had replaced nothing: c0
\* is there with its member, its replacement is ready, c1 has no replacement.
C19_Witness ==
    /\ pc = "done"
    /\ err = "unable to delete old etcd member"
    /\ {c0, c1} \subseteq LiveMachines
    /\ c0 \in etcdMembers
    /\ \E id \in UpgradeIDs :
          /\ generateReplacementMachineName(c0, id) \in ReadyMachines
          /\ generateReplacementMachineName(c1, id) \notin DOMAIN machines

\* The versions of the listed machines whose spec.version is not empty.
ListedVersions ==
    {machines[n].version.semver :
        n \in {m \in LiveMachines : ~machines[m].version.nil /\ ~machines[m].version.empty}}

\* The least of them.
LeastListedVersion ==
    CHOOSE v \in ListedVersions : \A w \in ListedVersions : ~VersionLT(w, v)

\* C20: the gating on a minor bump.  Upgrade() goes on from the listing to
\* the kubelet ConfigMap, and from there to the kubelet Role and RoleBinding,
\* exactly when the least version of the listed machines and the desired
\* version have the same major and the desired minor is greater (with no
\* version listed the least version is 0.0.0); otherwise it goes straight to
\* the etcd health check.  (1.16.3, 1.17.0) is a minor bump, (1.17.0, 1.17.5) and
\* (1.17.0, 2.0.0) are not.
C20_MinorBumpGating ==
    [][/\ (pc = "listMachines" /\ pc' \notin {"listMachines", "done"}) =>
            /\ pc' \in {"kubeletConfigMap", UpgradeSteps[1]}
            /\ pc' = "kubeletConfigMap" <=>
                  LET least == IF ListedVersions = {} THEN Version(0, 0, 0)
                               ELSE LeastListedVersion
                  IN  /\ least.major = desiredVersion'.major
                      /\ least.minor < desiredVersion'.minor
       /\ (pc = "kubeletConfigMap" /\ pc' \notin {"kubeletConfigMap", "done"}) =>
            pc' = "kubeletRbac"
       /\ (pc' = "kubeletRbac" /\ pc # "kubeletRbac") => pc = "kubeletConfigMap"
       /\ (pc' = "kubeletConfigMap" /\ pc # "kubeletConfigMap") => pc = "listMachines"
       /\ isMinorVersionUpgrade(Version(1, 16, 3), Version(1, 17, 0))
       /\ ~isMinorVersionUpgrade(Version(1, 17, 0), Version(1, 17, 5))
       /\ ~isMinorVersionUpgrade(Version(1, 17, 0), Version(2, 0, 0))
      ]_vars

\* With machines at 1.16.3 and 1.17.5 listed, a run to 1.17.0 has made the
\* kubelet ConfigMap and is at the Role and RoleBinding.
C20_Witness ==
    /\ pc = "kubeletRbac"
    /\ desiredVersion = V117
    /\ ListedVersions = {V116, Version(1, 17, 5)}
    /\ <<1, 17>> \in DOMAIN kubeletCMs

\* C21: the etcd snapshot.  The members are saved once in a run, at the head
\* of updateMachines, before the run has created a replacement or written to
\* the management cluster; a step of a run that removes an etcd member
\* removes one member, the one saved under the hostname of the node of the
\* machine in progress, and so never one that joined after the members were
\* saved.
C21_EtcdSnapshot ==
    [][/\ (oldNodeToEtcdMember' # oldNodeToEtcdMember
             /\ pc' \notin {"done", "listMachines"}) =>
            /\ pc = "updateMachines"
            /\ oldNodeToEtcdMember' = etcdMembers
            /\ created = {}
            /\ "management" \notin wrote
            /\ "etcd member" \notin wrote
       /\ (Running /\ etcdMembers \ etcdMembers' # {}) =>
            /\ pc = "removeMember"
            /\ etcdMembers \ etcdMembers' = {mlist[i].providerID}
            /\ etcdMembers \ etcdMembers' \subseteq oldNodeToEtcdMember
            /\ oldNodeToEtcdMember' = oldNodeToEtcdMember
      ]_vars

\* The member of the old node was removed; the member of the replacement's
\* node, which joined after the members were saved, is there.
C21_Witness ==
    /\ pc = "deleteMachine"
    /\ mlist[i].providerID \in oldNodeToEtcdMember
    /\ mlist[i].providerID \notin etcdMembers
    /\ matchingNode \in etcdMembers
    /\ matchingNode \notin oldNodeToEtcdMember
    /\ replacementMachineName \in created

\* C22: the latch of the secret reparenting.  A step of a run changes the
\* owners of the secrets only with the latch not set, sets the latch, and
\* makes the KubeadmConfig of the replacement in progress, which exists, the
\* owner of all four; the latch stays set for the rest of the run.  A
\* KubeadmConfig created with the latch not set is followed at once by the
\* reparenting or by the end of the run; one created with the latch set
\* leaves the secrets alone.
C22_ReparentingLatch ==
    [][Running =>
         /\ secrets' # secrets =>
               /\ pc = "secrets"
               /\ ~secretsUpdated /\ secretsUpdated'
               /\ replacementMachineName \in DOMAIN bootstraps
               /\ \A k \in 1..Len(secretNames) : secrets'[k] = replacementMachineName
         /\ (secretsUpdated /\ pc' # "done") => secretsUpdated'
         /\ (DOMAIN bootstraps' # DOMAIN bootstraps /\ ~secretsUpdated) =>
               /\ pc' = "secrets"
               /\ DOMAIN bootstraps' = DOMAIN bootstraps \cup {replacementMachineName}
         /\ (DOMAIN bootstraps' # DOMAIN bootstraps /\ secretsUpdated) =>
               /\ secrets' = secrets
               /\ pc' # "secrets"
         /\ (pc = "secrets" /\ pc' # "secrets") =>
               \/ pc' = "done"
               \/ /\ secretsUpdated'
                  /\ \A k \in 1..Len(secretNames) : secrets'[k] = replacementMachineName
      ]_vars

\* The run created the KubeadmConfig of the replacement of c0, reparented the
\* secrets to it, and then created the one of the replacement of c1.
C22_Witness ==
    /\ pc = "machine"
    /\ mlist[i].name = c1
    /\ secretsUpdated
    /\ \A k \in 1..Len(secretNames) :
          secrets[k] = generateReplacementMachineName(c0, upgradeID)
    /\ generateReplacementMachineName(c0, upgradeID) \in created
    /\ replacementMachineName \in DOMAIN bootstraps
    /\ replacementMachineName \notin DOMAIN machines

\* A step of the run leaves pc, for another reason than a failed remote call
\* or the death of the process.
StepTaken(at) ==
    pc = at /\ pc' # at /\ err' \notin {"remote call failed", "crash"}

\* C23: synthesis is guarded by the probe.  The infrastructure object, the
\* KubeadmConfig and the Machine of the replacement's name come into being
\* only in their own step and only when there was none of that name; when
\* there is one, the step leaves the objects of that kind as they are and
\* goes on to the next step; no other step of a run makes the objects of a
\* kind more.  So there is at most one of each under the name, made once,
\* whatever the number of runs.
C23_SynthesisExistsGuarded ==
    [][Running =>
         LET name == replacementMachineName
         IN  /\ infras' # infras =>
                   /\ pc = "infra"
                   /\ name \notin infras
                   /\ infras' = infras \cup {name}
             /\ (StepTaken("infra") /\ name \in infras) =>
                   infras' = infras /\ pc' = "bootstrap"
             /\ bootstraps' # bootstraps =>
                   /\ pc = "bootstrap"
                   /\ name \notin DOMAIN bootstraps
                   /\ DOMAIN bootstraps' = DOMAIN bootstraps \cup {name}
                   /\ \A n \in DOMAIN bootstraps : bootstraps'[n] = bootstraps[n]
             /\ (StepTaken("bootstrap") /\ name \in DOMAIN bootstraps) =>
                   bootstraps' = bootstraps /\ secrets' = secrets /\ pc' = "machine"
             /\ DOMAIN machines' # DOMAIN machines =>
                   /\ pc = "machine"
                   /\ name \notin DOMAIN machines
                   /\ DOMAIN machines' = DOMAIN machines \cup {name}
                   /\ \A n \in DOMAIN machines : machines'[n] = machines[n]
             /\ (StepTaken("machine") /\ name \in DOMAIN machines
                   /\ mlist[i].providerID \in providerIDsToNodes) =>
                   machines' = machines /\ pc' = "waitProviderID"
      ]_vars

\* A run that found all three objects of the replacement of c0 in place has
\* passed the three steps and created nothing.
C23_Witness ==
    /\ pc = "waitProviderID"
    /\ mlist[i].name = c0
    /\ events = <<"infra", "bootstrap", "machine">>
    /\ created = {}
    /\ "management" \notin wrote
    /\ replacementMachineName \in DOMAIN machines
    /\ replacementMachineName \in DOMAIN bootstraps
    /\ replacementMachineName \in infras

\* The pod of the component on the host was fetched and has the condition
\* with status True.
HasTrue(pods, component, nodeHostname, type) ==
    LET name == podName(component, nodeHostname)
    IN  /\ name \in DOMAIN pods
        /\ pods[name].get = "ok"
        /\ \E k \in DOMAIN pods[name].conditions :
              pods[name].conditions[k] = [type |-> type, status |-> "True"]

\* C25: readiness predicate.  isReady(hostname) has returned true if and only
\* if for each of etcd, kube-apiserver, kube-scheduler and
\* kube-controller-manager the pod <component>-<hostname> was fetched and has
\* each of PodScheduled, Initialized, Ready and ContainersReady with status
\* True; with a pod missing or a fetch failing it has returned false.
C25_ReadinessPredicate ==
    (call.fn = "isReady" /\ call.returned # "not yet") =>
        /\ call.returned = "true" <=>
              \A component \in {"etcd", "kube-apiserver", "kube-scheduler",
                                "kube-controller-manager"},
                 type \in {"PodScheduled", "Initialized", "Ready", "ContainersReady"} :
                 HasTrue(call.pods, component, call.nodeHostname, type)
        /\ (\E component \in {"etcd", "kube-apiserver", "kube-scheduler",
                              "kube-controller-manager"} :
              LET name == podName(component, call.nodeHostname)
              IN  name \notin DOMAIN call.pods \/ call.pods[name].get # "ok")
           => call.returned = "false"

\* isReady has returned true for a host whose four pods have the conditions
\* True, one of them next to a condition that is not.
C25_Witness ==
    /\ call.fn = "isReady"
    /\ call.returned = "true"
    /\ \E component \in {"etcd", "kube-apiserver"} :
          Len(call.pods[podName(component, call.nodeHostname)].conditions) = 5

\* What the wait waits for is there, and value is what the wait returns of it.
Awaited(value) ==
    CASE call.fn = "waitForProviderID" ->
           /\ ~call.world.nil
           /\ call.world.value # <<>>
           /\ value = call.world.value
      [] call.fn = "waitForMatchingNode" ->
           /\ value \in call.world
           /\ ~NewProviderID(value.providerID).err
           /\ NewProviderID(value.providerID).cloudProvider = call.arg[1]
           /\ NewProviderID(value.providerID).id = call.arg[Len(call.arg)]
      [] call.fn = "waitForNodeReady" ->
           \A component \in {"etcd", "kube-apiserver", "kube-scheduler",
                             "kube-controller-manager"},
              type \in {"PodScheduled", "Initialized", "Ready", "ContainersReady"} :
              HasTrue(call.world, component, hostnameForNode(call.arg), type)

\* C24: convergence waiter.  A wait that polls returns without error only at
\* a probe that observed what it waits for (a provider id that is neither nil
\* nor empty, a Node whose provider id parses to the same cloud provider and
\* instance id, the readiness check true) and returns what it observed; a
\* probe before the deadline that did not observe it, its Get or List failed
\* or not, leaves the wait polling; a poll returns an error only once the
\* timeout has passed, and the error is the timeout of the wait; and every
\* wait returns.
C24_ConvergenceWaiter ==
    /\ [][(call.phase = "polling" /\ call'.world = call.world /\ call' # call) =>
            /\ call'.phase = "returned" /\ call'.err = "" =>
                  /\ call'.probe = "done"
                  /\ Awaited(call'.value)
            /\ call'.probe # "done" /\ call.elapsed < 15 * 60 =>
                  /\ call'.phase = "polling"
                  /\ call'.elapsed > call.elapsed
            /\ call'.phase = "returned" /\ call'.err # "" =>
                  /\ call.elapsed >= 15 * 60
                  /\ call'.probe # "done"
                  /\ call'.err \in {"timed out waiting for machine provider id",
                                    "timed out waiting for matching node",
                                    "components on node are not ready"}
         ]_vars
    /\ (call.phase # "returned") ~> (call.phase = "returned")

\* waitForProviderID has returned the provider id that the infrastructure
\* provider set while the wait was polling, after a probe whose Get failed.
C24_Witness ==
    /\ call.fn = "waitForProviderID"
    /\ call.phase = "returned"
    /\ call.err = ""
    /\ call.value = <<"aws", "zone-a", "i-1">>
    /\ call.failed
    /\ call.elapsed >= 10

\* C26: bootstrap migration.  The KubeadmConfig that updateBootstrapConfig
\* creates has a JoinConfiguration and no InitConfiguration; the node
\* registration of its JoinConfiguration is that of the source's
\* InitConfiguration when the source had one, otherwise that of the source's
\* JoinConfiguration (a source with neither has no registration to compare);
\* its resource version and owner references are cleared and its name is the
\* replacement name.
C26_BootstrapMigration ==
    (call.fn = "updateBootstrapConfig" /\ call.created # [name |-> ""]) =>
        /\ ~call.created.spec.joinConfiguration.nil
        /\ call.created.spec.initConfiguration.nil
        /\ ~call.source.spec.initConfiguration.nil =>
              call.created.spec.joinConfiguration.nodeRegistration
                  = call.source.spec.initConfiguration.nodeRegistration
        /\ (call.source.spec.initConfiguration.nil
              /\ ~call.source.spec.joinConfiguration.nil) =>
              call.created.spec.joinConfiguration.nodeRegistration
                  = call.source.spec.joinConfiguration.nodeRegistration
        /\ call.created.resourceVersion = ""
        /\ call.created.ownerReferences = <<>>
        /\ call.created.name = call.replacementName

\* The replacement of a KubeadmConfig that had both configurations, a resource
\* version and an owner: it has the registration of the InitConfiguration in
\* the JoinConfiguration it had.
C26_Witness ==
    /\ call.fn = "updateBootstrapConfig"
    /\ call.created # [name |-> ""]
    /\ ~call.source.spec.initConfiguration.nil
    /\ ~call.source.spec.joinConfiguration.nil
    /\ call.source.spec.initConfiguration.nodeRegistration.name = "cp-init"
    /\ call.source.spec.joinConfiguration.nodeRegistration.name = "cp-join"
    /\ call.source.resourceVersion = "4711"
    /\ call.source.ownerReferences # <<>>
    /\ call.created.spec.joinConfiguration.nodeRegistration.name = "cp-init"
    /\ call.created.spec.joinConfiguration.discovery = "token"

\* C27: PKI secrets are never left owned by an outgoing bootstrap config.  In
\* every run, resumed ones included, at the step by which the run deletes an
\* old Machine each of the four secrets is owned by a KubeadmConfig whose name
\* ends with the upgrade suffix of the run, and by none of a Machine that is
\* being deleted or is gone.
C27_SecretsFollowBootstrap ==
    [][(/\ Running
        /\ pc = "deleteMachine"
        /\ mlist[i].name \in DOMAIN machines
        /\ ~machines[mlist[i].name].deleting
        /\ machines'[mlist[i].name].deleting) =>
          \A k \in DOMAIN secrets :
             /\ HasSuffix(secrets[k], upgradeSuffix(upgradeID))
             /\ secrets[k] # mlist[i].name
             /\ secrets[k] \in DOMAIN machines => ~machines'[secrets[k]].deleting
      ]_vars

\* C28: no minor underflow.  Whenever Upgrade() is at the synthesis of the
\* kubelet ConfigMap, whatever the versions of the machines (all of them
\* empty included, where the least version is the zero version) and the
\* desired version, the desired minor is at least 1: the minor of the name
\* looked up for the previous ConfigMap is the desired minor less one and is
\* not negative or wrapped.
C28_NoMinorUnderflow ==
    pc = "kubeletConfigMap" =>
        /\ desiredVersion.minor >= 1
        /\ previousMinor(desiredVersion.minor) = desiredVersion.minor - 1
        /\ previousMinor(desiredVersion.minor) >= 0

\* Upgrade() is at the synthesis for 0.1.0 with machines that have all an
\* empty version.
C28_Witness ==
    /\ pc = "kubeletConfigMap"
    /\ desiredVersion = Version(0, 1, 0)
    /\ \A n \in DOMAIN machines : machines[n].version.empty

\* C29: kubelet ConfigMap synthesis copies or fails.  A step of the synthesis
\* creates nothing if the ConfigMap of the desired minor exists; a ConfigMap
\* it creates has that name and the data of the existing ConfigMap of the
\* previous minor; and if it creates none where the desired one is missing,
\* the previous one being absent or its Get having failed, the run ends with
\* an error.
C29_SynthesisCopiesOrFails ==
    [][(pc = "kubeletConfigMap" /\ pc' # pc /\ err' # "crash") =>
          LET desiredName == <<desiredVersion.major, desiredVersion.minor>>
              previousName == <<desiredVersion.major, desiredVersion.minor - 1>>
          IN  /\ desiredName \in DOMAIN kubeletCMs => kubeletCMs' = kubeletCMs
              /\ kubeletCMs' # kubeletCMs =>
                    /\ previousName \in DOMAIN kubeletCMs
                    /\ DOMAIN kubeletCMs' = DOMAIN kubeletCMs \cup {desiredName}
                    /\ kubeletCMs'[desiredName] = kubeletCMs[previousName]
                    /\ \A n \in DOMAIN kubeletCMs : kubeletCMs'[n] = kubeletCMs[n]
              /\ (desiredName \notin DOMAIN kubeletCMs /\ kubeletCMs' = kubeletCMs) =>
                    /\ pc' = "done"
                    /\ err' # ""
      ]_vars

====
